---- MODULE Spec2Model ----
(***************************************************************************)
(* RSI divergence bots (rsi_divergence_bot.py, nifty50_rsi_divergence_bot  *)
(* .py, multi_rsi_divergence_bot.py): the TriggerTracker state machine,    *)
(* compute_divergences and the polling loop of main.                       *)
(*                                                                         *)
(* Floats are modelled by integers plus the value NaN; every comparison    *)
(* goes through FGt/FGe/FLt/FLe/FEq, which are false as soon as one side   *)
(* is NaN, as the comparisons of Python floats are.  Python's None is the  *)
(* empty tuple and a present value v is <<v>>.  Python indices are kept    *)
(* 0-based: Iloc(s, i) is s.iloc[i].                                       *)
(***************************************************************************)
EXTENDS Integers, Sequences, FiniteSets, TLC

VARIABLES
    \* TriggerTracker (self.bull_trigger, self.bear_trigger) and the frame of
    \* one update call: its row, its signals dict, its two breakout locals
    \* and the position in the body (0: no call in progress)
    bull_trigger, bear_trigger, row, signals, bull_broke, bear_broke, upc,
    \* observations of the update in progress, written by no program step:
    \* the triggers at entry, whether the level was reached at the breakout
    \* step, and whether the last break has not been followed by a re-arming
    entry_bull, entry_bear, bull_hit, bear_hit, bull_spent, bear_spent,
    \* and whether some row passed to update since __init__ carried
    \* divbull_close, divbear_close
    bull_seen, bear_seen,
    \* one call of compute_divergences: its arguments df and lookback, the
    \* loop index i and the six arrays it fills
    d_df, d_lookback, d_i, arr,
    \* the two flags of the newest row of the trailing window, as the last
    \* cycle over the bars of d_df computed them
    w_latest,
    \* observation of the last loop iteration: the max and the min pair of its
    \* bar as the if/elif/else left them, before the two clamps
    pre_clamp,
    \* the six arrays of compute_divergences of multi_rsi_divergence_bot and
    \* of nifty50_rsi_divergence_bot, run on the same df and lookback
    arr_multi, arr_nifty,
    \* the candles the exchange holds, oldest first, the forming one last
    market,
    \* main of rsi_divergence_bot: last_bar_time, the branch the last cycle
    \* of the loop ended in, and the alerts handed to send_telegram so far
    \* (the local latest is the variable row once it is passed to update)
    last_bar_time, outcome, alerts,
    \* observations of the last cycle: len(df) and the time of df's newest
    \* row as fetch_candles returned it, and the number of tracker.update
    \* calls so far
    df_len, df_newest, n_updates,
    \* more observations: the time of the newest row of the result the data
    \* source returned in the last cycle, the times of the rows passed to
    \* tracker.update so far, and what each send_telegram call of the last
    \* cycle ended in (a cycle that skips its bar makes no call)
    result_newest, fed, delivery,
    \* main of multi_rsi_divergence_bot: the dicts trackers and last_bars,
    \* the session of the Angel One login (FALSE: None), the position of the
    \* loop over TARGETS and the branch its last pass ended in
    trackers, last_bars, aone_session, m_pos, m_outcome,
    \* what is_market_open() answers at the moment
    market_open,
    \* main of nifty50_rsi_divergence_bot: the local session ("valid": a
    \* SmartConnect object that Angel One accepts, "lost": one it no longer
    \* accepts, "none": None; "unset" before main assigns it), the number of
    \* login_angel_one calls made by the loop, and the parity of the number
    \* of iterations of `while True` (its tracker, last_bar_time and the
    \* branch of the last iteration are the variables of the same names)
    session, logins, beat,
    \* observations of the cycles of a main loop that ended in its except
    \* clause: the times of the bars whose cycle raised between the
    \* assignment of last_bar_time and tracker.update, and the alerts of the
    \* bars whose cycle raised before the alert loop reached them
    skipped, unsent

vars == <<bull_trigger, bear_trigger, row, signals, bull_broke, bear_broke, upc,
          entry_bull, entry_bear, bull_hit, bear_hit, bull_spent, bear_spent,
          bull_seen, bear_seen,
          d_df, d_lookback, d_i, arr, w_latest, pre_clamp, arr_multi, arr_nifty,
          market, last_bar_time, outcome, alerts,
          df_len, df_newest, n_updates, result_newest, fed, delivery,
          trackers, last_bars, aone_session, m_pos, m_outcome,
          market_open, session, logins, beat, skipped, unsent>>

multiVars == <<trackers, last_bars, aone_session, m_pos, m_outcome>>

niftyVars == <<session, logins, beat>>

onceVars == <<skipped, unsent>>

mainVars == <<market, last_bar_time, outcome, alerts,
              df_len, df_newest, n_updates, result_newest, fed, delivery>>

divVars == <<d_df, d_lookback, d_i, arr, w_latest, pre_clamp, arr_multi, arr_nifty>>

trackerVars == <<bull_trigger, bear_trigger, row, signals, bull_broke, bear_broke, upc>>
ghostVars == <<entry_bull, entry_bear, bull_hit, bear_hit, bull_spent, bear_spent,
               bull_seen, bear_seen>>

-----------------------------------------------------------------------------
\* Program constants

RSI_LENGTH == 14
LOOKBACK == 7
RSI_BUY_MIN == 40
RSI_SELL_MAX == 60
CANDLES_FETCH == 100
DRY_RUN == FALSE

\* Bounds of the model
MaxPrice == 2
MaxBars == 4
MaxLookback == 4
MaxNewBars == 3
WindowBars == 3
MaxMultiTime == 2

-----------------------------------------------------------------------------
\* Values

NaN == -1
None == << >>
Some(v) == <<v>>

\* the max pair and the min pair of a bar whose RSI is undefined
NoPair == [max |-> [rsi |-> NaN, close |-> NaN], min |-> [rsi |-> NaN, close |-> NaN]]

IsNaN(x) == x = NaN
FGt(a, b) == ~IsNaN(a) /\ ~IsNaN(b) /\ a > b
FGe(a, b) == ~IsNaN(a) /\ ~IsNaN(b) /\ a >= b
FLt(a, b) == ~IsNaN(a) /\ ~IsNaN(b) /\ a < b
FLe(a, b) == ~IsNaN(a) /\ ~IsNaN(b) /\ a <= b
FEq(a, b) == ~IsNaN(a) /\ ~IsNaN(b) /\ a = b

Iloc(s, i) == s[i + 1]

-----------------------------------------------------------------------------
\* TriggerTracker

NoSignals == [divbear |-> FALSE, divbull |-> FALSE, buy |-> FALSE, sell |-> FALSE]

NoFlags == [divbear_close |-> FALSE, divbull_close |-> FALSE]

NoRow == [time |-> 0, close |-> 0, high |-> 0, low |-> 0, rsi |-> 0,
          divbear_close |-> FALSE, divbull_close |-> FALSE]

NewTracker_Stale == [bull_trigger |-> Some(1), bear_trigger |-> None]

\* __init__
NewTracker == [bull_trigger |-> None, bear_trigger |-> None]

\* The frame of update at entry: self, signals = all False, locals unset
EnterUpdate(self) ==
    [bull_trigger |-> self.bull_trigger, bear_trigger |-> self.bear_trigger,
     signals |-> NoSignals, bull_broke |-> FALSE, bear_broke |-> FALSE]

Step1_NoReset(u, r) ==
    IF r.divbear_close
    THEN [u EXCEPT !.signals.divbear = TRUE, !.bear_trigger = Some(r.low)]
    ELSE IF r.divbull_close
    THEN [u EXCEPT !.signals.divbull = TRUE, !.bull_trigger = Some(r.high)]
    ELSE u

Step1_BothBranches(u, r) ==
    LET v == IF r.divbear_close
             THEN [u EXCEPT !.signals.divbear = TRUE,
                            !.bear_trigger = Some(r.low), !.bull_trigger = None]
             ELSE u
    IN  IF r.divbull_close
        THEN [v EXCEPT !.signals.divbull = TRUE,
                       !.bull_trigger = Some(r.high), !.bear_trigger = None]
        ELSE v

Step1_BullFirst(u, r) ==
    IF r.divbull_close
    THEN [u EXCEPT !.signals.divbull = TRUE,
                   !.bull_trigger = Some(r.high), !.bear_trigger = None]
    ELSE IF r.divbear_close
    THEN [u EXCEPT !.signals.divbear = TRUE,
                   !.bear_trigger = Some(r.low), !.bull_trigger = None]
    ELSE u

\* Step 1: new divergence -> set trigger, reset opposite
Step1(u, r) ==
    IF r.divbear_close
    THEN [u EXCEPT !.signals.divbear = TRUE,
                   !.bear_trigger = Some(r.low), !.bull_trigger = None]
    ELSE IF r.divbull_close
    THEN [u EXCEPT !.signals.divbull = TRUE,
                   !.bull_trigger = Some(r.high), !.bear_trigger = None]
    ELSE u

Step2_Strict(u, r) ==
    [u EXCEPT
       !.bull_broke = (u.bull_trigger # None) /\ FGt(r.high, u.bull_trigger[1]),
       !.bear_broke = (u.bear_trigger # None) /\ FLt(r.low, u.bear_trigger[1])]

\* Step 2: check breakout
Step2(u, r) ==
    [u EXCEPT
       !.bull_broke = (u.bull_trigger # None) /\ FGe(r.high, u.bull_trigger[1]),
       !.bear_broke = (u.bear_trigger # None) /\ FLe(r.low, u.bear_trigger[1])]

Step3_Inclusive(u, r) ==
    [u EXCEPT
       !.signals.buy = IF u.bull_broke /\ FGe(r.rsi, RSI_BUY_MIN) THEN TRUE ELSE @,
       !.signals.sell = IF u.bear_broke /\ FLe(r.rsi, RSI_SELL_MAX) THEN TRUE ELSE @]

\* Step 3: confirm only if the RSI filter passes
Step3(u, r) ==
    [u EXCEPT
       !.signals.buy = IF u.bull_broke /\ FGt(r.rsi, RSI_BUY_MIN) THEN TRUE ELSE @,
       !.signals.sell = IF u.bear_broke /\ FLt(r.rsi, RSI_SELL_MAX) THEN TRUE ELSE @]

Step4_OnlyWhenConfirmed(u, r) ==
    [u EXCEPT
       !.bull_trigger = IF u.bull_broke /\ u.signals.buy THEN None ELSE @,
       !.bear_trigger = IF u.bear_broke /\ u.signals.sell THEN None ELSE @]

\* Step 4: reset trigger on first breakout
Step4(u, r) ==
    [u EXCEPT
       !.bull_trigger = IF u.bull_broke THEN None ELSE @,
       !.bear_trigger = IF u.bear_broke THEN None ELSE @]

UpdateOrder_BreakoutFirst == <<"step2", "step1", "step3", "step4">>

\* The order of the statements of update
UpdateOrder == <<"step1", "step2", "step3", "step4">>

ExecStep(name, u, r) ==
    CASE name = "step1" -> Step1(u, r)
      [] name = "step2" -> Step2(u, r)
      [] name = "step3" -> Step3(u, r)
      [] name = "step4" -> Step4(u, r)

RECURSIVE RunSteps(_, _, _)
RunSteps(k, u, r) ==
    IF k > Len(UpdateOrder) THEN u
    ELSE RunSteps(k + 1, ExecStep(UpdateOrder[k], u, r), r)

\* update(row), run to its return: the frame when it returns
Update(self, r) == RunSteps(1, EnterUpdate(self), r)

-----------------------------------------------------------------------------
\* Observations of an update (they read the frame, they never feed it)

\* the level is set and reached by this bar, seen when the breakout step runs
HitBull(u, r) == u.bull_trigger # None /\ FGe(r.high, u.bull_trigger[1])
HitBear(u, r) == u.bear_trigger # None /\ FLe(r.low, u.bear_trigger[1])

\* after a return: the last break of the level has not been followed by a
\* bar with the divergence flag that re-arms it
SpentAfter(spent, hit, flag) == IF hit THEN TRUE ELSE IF flag THEN FALSE ELSE spent

-----------------------------------------------------------------------------
\* TriggerTracker driven by arbitrary rows, one step of update at a time

Prices == (1 .. MaxPrice) \cup {NaN}
RsiInputs == {RSI_BUY_MIN - 1, RSI_BUY_MIN, RSI_BUY_MIN + 1,
              RSI_SELL_MAX - 1, RSI_SELL_MAX, RSI_SELL_MAX + 1}

TrackerRows ==
    [time : {0}, close : {0}, high : Prices, low : Prices, rsi : RsiInputs,
     divbear_close : BOOLEAN, divbull_close : BOOLEAN]

Frame == [bull_trigger |-> bull_trigger, bear_trigger |-> bear_trigger,
          signals |-> signals, bull_broke |-> bull_broke, bear_broke |-> bear_broke]

SetFrame(u) ==
    /\ bull_trigger' = u.bull_trigger
    /\ bear_trigger' = u.bear_trigger
    /\ signals' = u.signals
    /\ bull_broke' = u.bull_broke
    /\ bear_broke' = u.bear_broke

\* the variables of the other parts, at rest
DivIdle ==
    /\ d_df = << >>
    /\ d_lookback = 0
    /\ d_i = 0
    /\ arr = [max_rsi_arr |-> << >>, min_rsi_arr |-> << >>, max_close_arr |-> << >>,
              min_close_arr |-> << >>, divbear |-> << >>, divbull |-> << >>]
    /\ w_latest = NoFlags
    /\ pre_clamp = NoPair
    /\ arr_multi = arr
    /\ arr_nifty = arr

MainIdle ==
    /\ market = << >>
    /\ last_bar_time = None
    /\ outcome = "start"
    /\ alerts = << >>
    /\ df_len = 0
    /\ df_newest = None
    /\ n_updates = 0
    /\ result_newest = None
    /\ fed = << >>
    /\ delivery = << >>

MultiOff ==
    /\ trackers = << >>
    /\ last_bars = << >>
    /\ aone_session = FALSE
    /\ m_pos = 0
    /\ m_outcome = "start"

MultiIdle == MultiOff /\ market_open = FALSE

NiftyIdle ==
    /\ session = "unset"
    /\ logins = 0
    /\ beat = FALSE

OnceIdle ==
    /\ skipped = {}
    /\ unsent = {}

GhostInit ==
    /\ entry_bull = None
    /\ entry_bear = None
    /\ bull_hit = FALSE
    /\ bear_hit = FALSE
    /\ bull_spent = FALSE
    /\ bear_spent = FALSE
    /\ bull_seen = FALSE
    /\ bear_seen = FALSE

TrackerInit ==
    /\ bull_trigger = NewTracker.bull_trigger
    /\ bear_trigger = NewTracker.bear_trigger
    /\ row = NoRow
    /\ signals = NoSignals
    /\ bull_broke = FALSE
    /\ bear_broke = FALSE
    /\ upc = 0
    /\ GhostInit
    /\ DivIdle
    /\ MainIdle
    /\ OnceIdle
    /\ MultiIdle
    /\ NiftyIdle

\* update is called with a row
UpdateCall ==
    /\ upc = 0
    /\ \E r \in TrackerRows :
         /\ row' = r
         /\ SetFrame(EnterUpdate([bull_trigger |-> bull_trigger,
                                  bear_trigger |-> bear_trigger]))
         /\ bull_seen' = (bull_seen \/ r.divbull_close)
         /\ bear_seen' = (bear_seen \/ r.divbear_close)
    /\ upc' = 1
    /\ entry_bull' = bull_trigger
    /\ entry_bear' = bear_trigger
    /\ bull_hit' = FALSE
    /\ bear_hit' = FALSE
    /\ UNCHANGED <<bull_spent, bear_spent, divVars, mainVars, multiVars, market_open, niftyVars, onceVars>>

\* one statement group of update; the last one returns
DoStep(name) ==
    /\ upc \in 1 .. Len(UpdateOrder)
    /\ UpdateOrder[upc] = name
    /\ SetFrame(ExecStep(name, Frame, row))
    /\ upc' = IF upc = Len(UpdateOrder) THEN 0 ELSE upc + 1
    /\ bull_hit' = IF name = "step2" THEN HitBull(Frame, row) ELSE bull_hit
    /\ bear_hit' = IF name = "step2" THEN HitBear(Frame, row) ELSE bear_hit
    /\ bull_spent' = IF upc = Len(UpdateOrder)
                     THEN SpentAfter(bull_spent, bull_hit, row.divbull_close)
                     ELSE bull_spent
    /\ bear_spent' = IF upc = Len(UpdateOrder)
                     THEN SpentAfter(bear_spent, bear_hit, row.divbear_close)
                     ELSE bear_spent
    /\ UNCHANGED <<row, entry_bull, entry_bear, bull_seen, bear_seen, divVars, mainVars, multiVars, market_open, niftyVars, onceVars>>

ArmStep == DoStep("step1")
BreakoutStep == DoStep("step2")
ConfirmStep == DoStep("step3")
ResetStep == DoStep("step4")

TrackerNext == UpdateCall \/ ArmStep \/ BreakoutStep \/ ConfirmStep \/ ResetStep

TrackerSpec == TrackerInit /\ [][TrackerNext]_vars

-----------------------------------------------------------------------------
\* Properties of TriggerTracker (under TrackerSpec)

BothSet == bull_trigger # None /\ bear_trigger # None

BearArmedHere == bear_trigger' # None /\ bear_trigger' # bear_trigger
BullArmedHere == bull_trigger' # None /\ bull_trigger' # bull_trigger

\* C1: bull_trigger and bear_trigger are never both set, in any state from
\* construction on, the states between the steps of an update included;
\* bear_trigger becomes set only on a row with divbear_close, bull_trigger
\* only on a row with divbull_close and not divbear_close, and the step
\* that arms one leaves the other unset.
C1_MutuallyExclusive ==
    /\ [](~BothSet)
    /\ [][BearArmedHere =>
            row.divbear_close /\ bear_trigger' = Some(row.low)
            /\ bull_trigger' = None]_vars
    /\ [][BullArmedHere =>
            row.divbull_close /\ ~row.divbear_close
            /\ bull_trigger' = Some(row.high) /\ bear_trigger' = None]_vars

\* a bearish arming has just cleared a bull trigger that was set at entry
C1_Witness ==
    upc = 2 /\ entry_bull # None /\ bull_trigger = None /\ bear_trigger # None

\* C3: a level that is set and reached at the breakout step is unset when
\* update returns, whatever the RSI; and an update returns buy (sell) only
\* if the level has not been broken since it was last armed, or this row
\* carries divbull_close (divbear_close).
C3_OneShot ==
    /\ []((upc = 0 /\ bull_hit) => bull_trigger = None)
    /\ []((upc = 0 /\ bear_hit) => bear_trigger = None)
    /\ [][(upc # 0 /\ upc' = 0 /\ signals'.buy) =>
            (row.divbull_close \/ ~bull_spent)]_vars
    /\ [][(upc # 0 /\ upc' = 0 /\ signals'.sell) =>
            (row.divbear_close \/ ~bear_spent)]_vars

\* the level was reached with the RSI filter failing, and it is gone
C3_Witness ==
    upc = 0 /\ bull_hit /\ row.rsi < RSI_BUY_MIN /\ ~signals.buy
    /\ bull_trigger = None /\ bull_spent

\* C4: update returns buy exactly when the bull level, as it is after the
\* arming step, is set and reached and rsi > 40, and sell exactly when the
\* bear level is set and reached and rsi < 60; at rsi = 40 (60) no buy
\* (sell) fires and the level is consumed all the same.
C4_RsiFilter ==
    /\ upc = 4 =>
         /\ signals.buy = (bull_trigger # None /\ FGe(row.high, bull_trigger[1])
                           /\ row.rsi > 40)
         /\ signals.sell = (bear_trigger # None /\ FLe(row.low, bear_trigger[1])
                            /\ row.rsi < 60)
    /\ upc = 0 =>
         /\ signals.buy = (bull_hit /\ row.rsi > 40)
         /\ signals.sell = (bear_hit /\ row.rsi < 60)
         /\ (bull_hit /\ row.rsi = 40) => (~signals.buy /\ bull_trigger = None)
         /\ (bear_hit /\ row.rsi = 60) => (~signals.sell /\ bear_trigger = None)

\* a bear level reached at rsi = 60: no sell, level consumed
C4_Witness ==
    upc = 0 /\ bear_hit /\ row.rsi = 60 /\ ~signals.sell /\ bear_trigger = None

\* C5: once the arming and the breakout step have run, the breakout
\* booleans are those of the triggers as the arming step left them: a level
\* armed by this row (finite high/low) has broken on this row, and a level
\* set at entry that this row's opposite divergence cleared has not.
C5_BreakoutAfterArming ==
    upc \in {3, 4} =>
        /\ bull_broke = (bull_trigger # None /\ FGe(row.high, bull_trigger[1]))
        /\ bear_broke = (bear_trigger # None /\ FLe(row.low, bear_trigger[1]))
        /\ (row.divbull_close /\ ~row.divbear_close /\ ~IsNaN(row.high))
              => bull_broke
        /\ (row.divbear_close /\ ~IsNaN(row.low)) => bear_broke
        /\ (entry_bull # None /\ row.divbear_close) => ~bull_broke
        /\ (entry_bear # None /\ row.divbull_close /\ ~row.divbear_close)
              => ~bear_broke

\* the bull level was unset at entry, armed by this row, and has broken
C5_Witness ==
    upc = 3 /\ entry_bull = None /\ row.divbull_close /\ bull_broke

\* C6: after the arming step: with divbear_close, bear_trigger is the row's
\* low and bull_trigger is unset (also when divbull_close is true as well);
\* otherwise with divbull_close, bull_trigger is the row's high and
\* bear_trigger is unset; with neither flag both are as at entry.
C6_ArmingStep ==
    upc = 2 =>
        IF row.divbear_close
        THEN bear_trigger = Some(row.low) /\ bull_trigger = None
             /\ signals.divbear /\ ~signals.divbull
        ELSE IF row.divbull_close
        THEN bull_trigger = Some(row.high) /\ bear_trigger = None
             /\ signals.divbull /\ ~signals.divbear
        ELSE bull_trigger = entry_bull /\ bear_trigger = entry_bear
             /\ ~signals.divbull /\ ~signals.divbear

\* both flags on one row: the bearish branch ran
C6_Witness ==
    upc = 2 /\ row.divbear_close /\ row.divbull_close
    /\ bear_trigger = Some(row.low) /\ bull_trigger = None /\ ~signals.divbull

\* C16: a tracker is constructed with both triggers unset, and as long as
\* no row passed to update has carried divbull_close (divbear_close) the
\* bull (bear) trigger is unset and no update returns buy (sell).
C16_NoSignalBeforeDivergence ==
    /\ ~bull_seen => (bull_trigger = None /\ ~signals.buy)
    /\ ~bear_seen => (bear_trigger = None /\ ~signals.sell)

\* an update has returned for a row whose high and RSI would confirm a
\* buy, before any divergence: no signal
C16_Witness ==
    /\ upc = 0 /\ row # NoRow /\ ~bull_seen /\ ~bear_seen
    /\ ~IsNaN(row.high) /\ row.rsi > RSI_BUY_MIN
    /\ signals = NoSignals /\ bull_trigger = None /\ bear_trigger = None

TrackerStates ==
    {t \in [bull_trigger : {None} \cup {Some(p) : p \in Prices},
            bear_trigger : {None} \cup {Some(p) : p \in Prices}] :
        t.bull_trigger = None \/ t.bear_trigger = None}

\* C17 as stated: when update is about to be called, every subset of
\* {divbear, divbull, buy, sell} is the result of the call for some tracker
\* state and some row.
C17_AnySubsetCanFire ==
    upc = 0 =>
        \A want \in [{"divbear", "divbull", "buy", "sell"} -> BOOLEAN] :
            \E t \in TrackerStates, r \in TrackerRows : Update(t, r).signals = want

\* C17, amended: in the result of an update call divbear and divbull are
\* never both true, buy and sell are never both true, and a divergence flag
\* never comes with the confirmation of the opposite polarity (divbear with
\* buy, divbull with sell).
C17_OppositeNeverTogether ==
    /\ ~(signals.divbear /\ signals.divbull)
    /\ ~(signals.buy /\ signals.sell)
    /\ ~(signals.divbear /\ signals.buy)
    /\ ~(signals.divbull /\ signals.sell)

\* a bull trigger was pending when a row with both flags, a high and an
\* RSI above 40 came: the result is the bearish divergence with its own
\* confirmation, without divbull and without buy
C17_Witness ==
    /\ upc = 0 /\ entry_bull # None /\ row.divbear_close /\ row.divbull_close
    /\ ~IsNaN(row.high) /\ row.rsi > RSI_BUY_MIN /\ row.rsi < RSI_SELL_MAX
    /\ signals = [divbear |-> TRUE, divbull |-> FALSE, buy |-> FALSE, sell |-> TRUE]

-----------------------------------------------------------------------------
\* compute_divergences

Max2(a, b) == IF a > b THEN a ELSE b
SetMax(S) == CHOOSE x \in S : \A y \in S : y <= x
SetMin(S) == CHOOSE x \in S : \A y \in S : x <= y

\* the six arrays before the loop
NewArrays(n) ==
    [max_rsi_arr |-> [j \in 1 .. n |-> NaN], min_rsi_arr |-> [j \in 1 .. n |-> NaN],
     max_close_arr |-> [j \in 1 .. n |-> NaN], min_close_arr |-> [j \in 1 .. n |-> NaN],
     divbear |-> [j \in 1 .. n |-> FALSE], divbull |-> [j \in 1 .. n |-> FALSE]]

WindowRsi_OffByOne(df, lookback, i) ==
    LET start_w == Max2(0, i - lookback + 2)
    IN  {Iloc(df, j).rsi : j \in start_w .. i} \ {NaN}

\* df["rsi"].iloc[start_w : i + 1].dropna(), as the set of its values
WindowRsi(df, lookback, i) ==
    LET start_w == Max2(0, i - lookback + 1)
    IN  {Iloc(df, j).rsi : j \in start_w .. i} \ {NaN}

TrackMax_CarryOnTie(a, i, rsi_val, close_val, hb_is_zero) ==
    IF hb_is_zero /\ ~(i > 0 /\ FEq(Iloc(a.max_rsi_arr, i - 1), rsi_val))
    THEN [rsi |-> rsi_val, close |-> close_val]
    ELSE IF i = 0 \/ IsNaN(Iloc(a.max_rsi_arr, i - 1))
    THEN [rsi |-> rsi_val, close |-> close_val]
    ELSE [rsi |-> Iloc(a.max_rsi_arr, i - 1), close |-> Iloc(a.max_close_arr, i - 1)]

TrackMax_NoCarry(a, i, rsi_val, close_val, hb_is_zero) ==
    [rsi |-> rsi_val, close |-> close_val]

\* max_rsi / max_close of bar i before the clamp
TrackMax(a, i, rsi_val, close_val, hb_is_zero) ==
    IF hb_is_zero
    THEN [rsi |-> rsi_val, close |-> close_val]
    ELSE IF i = 0 \/ IsNaN(Iloc(a.max_rsi_arr, i - 1))
    THEN [rsi |-> rsi_val, close |-> close_val]
    ELSE [rsi |-> Iloc(a.max_rsi_arr, i - 1), close |-> Iloc(a.max_close_arr, i - 1)]

ClampMax_RsiOnly(m, rsi_val, close_val) ==
    [rsi |-> IF FGt(rsi_val, m.rsi) THEN rsi_val ELSE m.rsi, close |-> m.close]

\* "Update max if current bar exceeds stored max"
ClampMax(m, rsi_val, close_val) ==
    [rsi |-> IF FGt(rsi_val, m.rsi) THEN rsi_val ELSE m.rsi,
     close |-> IF FGt(close_val, m.close) THEN close_val ELSE m.close]

\* min_rsi / min_close of bar i before the clamp
TrackMin(a, i, rsi_val, close_val, lb_is_zero) ==
    IF lb_is_zero
    THEN [rsi |-> rsi_val, close |-> close_val]
    ELSE IF i = 0 \/ IsNaN(Iloc(a.min_rsi_arr, i - 1))
    THEN [rsi |-> rsi_val, close |-> close_val]
    ELSE [rsi |-> Iloc(a.min_rsi_arr, i - 1), close |-> Iloc(a.min_close_arr, i - 1)]

\* "Update min if current bar is below stored min"
ClampMin(m, rsi_val, close_val) ==
    [rsi |-> IF FLt(rsi_val, m.rsi) THEN rsi_val ELSE m.rsi,
     close |-> IF FLt(close_val, m.close) THEN close_val ELSE m.close]

DivBear_NoPriceTest(a, df, i) ==
    /\ i >= 2
    /\ LET mc1 == Iloc(a.max_close_arr, i - 1)
           mc2 == Iloc(a.max_close_arr, i - 2)
           rsi1 == Iloc(df, i - 1).rsi
           maxr == Iloc(a.max_rsi_arr, i)
       IN  /\ ~(IsNaN(mc1) \/ IsNaN(mc2) \/ IsNaN(rsi1) \/ IsNaN(maxr))
           /\ FLt(rsi1, maxr) /\ FLe(Iloc(df, i).rsi, rsi1)

DivBear_NoFade(a, df, i) ==
    /\ i >= 2
    /\ LET mc1 == Iloc(a.max_close_arr, i - 1)
           mc2 == Iloc(a.max_close_arr, i - 2)
           rsi1 == Iloc(df, i - 1).rsi
           maxr == Iloc(a.max_rsi_arr, i)
       IN  /\ ~(IsNaN(mc1) \/ IsNaN(mc2) \/ IsNaN(rsi1) \/ IsNaN(maxr))
           /\ FGt(mc1, mc2) /\ FLt(rsi1, maxr)

DivBear_LaggedMax(a, df, i) ==
    /\ i >= 2
    /\ LET mc1 == Iloc(a.max_close_arr, i - 1)
           mc2 == Iloc(a.max_close_arr, i - 2)
           rsi1 == Iloc(df, i - 1).rsi
           maxr == Iloc(a.max_rsi_arr, i - 1)
       IN  /\ ~(IsNaN(mc1) \/ IsNaN(mc2) \/ IsNaN(rsi1) \/ IsNaN(maxr))
           /\ FGt(mc1, mc2) /\ FLt(rsi1, maxr) /\ FLe(Iloc(df, i).rsi, rsi1)

\* divbear[i], with the arrays filled up to bar i
DivBear(a, df, i) ==
    /\ i >= 2
    /\ LET mc1 == Iloc(a.max_close_arr, i - 1)
           mc2 == Iloc(a.max_close_arr, i - 2)
           rsi1 == Iloc(df, i - 1).rsi
           maxr == Iloc(a.max_rsi_arr, i)
       IN  /\ ~(IsNaN(mc1) \/ IsNaN(mc2) \/ IsNaN(rsi1) \/ IsNaN(maxr))
           /\ FGt(mc1, mc2) /\ FLt(rsi1, maxr) /\ FLe(Iloc(df, i).rsi, rsi1)

DivBull_Strict(a, df, i) ==
    /\ i >= 2
    /\ LET mc1 == Iloc(a.max_close_arr, i - 1)
           mc2 == Iloc(a.max_close_arr, i - 2)
           rsi1 == Iloc(df, i - 1).rsi
           maxr == Iloc(a.max_rsi_arr, i)
           mr1 == Iloc(a.min_rsi_arr, i)
           minc1 == Iloc(a.min_close_arr, i - 1)
           minc2 == Iloc(a.min_close_arr, i - 2)
       IN  /\ ~(IsNaN(mc1) \/ IsNaN(mc2) \/ IsNaN(rsi1) \/ IsNaN(maxr))
           /\ ~(IsNaN(minc1) \/ IsNaN(minc2) \/ IsNaN(mr1))
           /\ FLt(minc1, minc2) /\ FGt(rsi1, mr1) /\ FGt(Iloc(df, i).rsi, rsi1)

\* divbull[i], with the arrays filled up to bar i: the test sits inside the
\* guard on mc1, mc2, rsi1, maxr
DivBull(a, df, i) ==
    /\ i >= 2
    /\ LET mc1 == Iloc(a.max_close_arr, i - 1)
           mc2 == Iloc(a.max_close_arr, i - 2)
           rsi1 == Iloc(df, i - 1).rsi
           maxr == Iloc(a.max_rsi_arr, i)
           mr1 == Iloc(a.min_rsi_arr, i)
           minc1 == Iloc(a.min_close_arr, i - 1)
           minc2 == Iloc(a.min_close_arr, i - 2)
       IN  /\ ~(IsNaN(mc1) \/ IsNaN(mc2) \/ IsNaN(rsi1) \/ IsNaN(maxr))
           /\ ~(IsNaN(minc1) \/ IsNaN(minc2) \/ IsNaN(mr1))
           /\ FLt(minc1, minc2) /\ FGt(rsi1, mr1) /\ FGe(Iloc(df, i).rsi, rsi1)

SetTracked_MaxOnly(a, i, mx, mn) ==
    [a EXCEPT !.max_rsi_arr[i + 1] = mx.rsi, !.max_close_arr[i + 1] = mx.close]

\* the arrays with the four tracked values of bar i stored
SetTracked(a, i, mx, mn) ==
    [a EXCEPT !.max_rsi_arr[i + 1] = mx.rsi, !.max_close_arr[i + 1] = mx.close,
              !.min_rsi_arr[i + 1] = mn.rsi, !.min_close_arr[i + 1] = mn.close]

\* one iteration of `for i in range(n)`
LoopBody(a, df, lookback, i) ==
    LET rsi_val == Iloc(df, i).rsi
        close_val == Iloc(df, i).close
        window_rsi == WindowRsi(df, lookback, i)
        here == [rsi |-> rsi_val, close |-> close_val]
    IN  IF IsNaN(rsi_val) THEN SetTracked(a, i, [rsi |-> NaN, close |-> NaN],
                                          [rsi |-> NaN, close |-> NaN])
        ELSE IF window_rsi = {} THEN SetTracked(a, i, here, here)
        ELSE
          LET hb_is_zero == FEq(rsi_val, SetMax(window_rsi))
              lb_is_zero == FEq(rsi_val, SetMin(window_rsi))
              mx == ClampMax(TrackMax(a, i, rsi_val, close_val, hb_is_zero),
                             rsi_val, close_val)
              mn == ClampMin(TrackMin(a, i, rsi_val, close_val, lb_is_zero),
                             rsi_val, close_val)
              b == SetTracked(a, i, mx, mn)
          IN  [b EXCEPT !.divbear[i + 1] = DivBear(b, df, i),
                        !.divbull[i + 1] = DivBull(b, df, i)]

\* the two pairs of bar i as the if/elif/else chains assign them, the
\* clamps not yet applied
PreClamp(a, df, lookback, i) ==
    LET rsi_val == Iloc(df, i).rsi
        close_val == Iloc(df, i).close
        window_rsi == WindowRsi(df, lookback, i)
        here == [rsi |-> rsi_val, close |-> close_val]
    IN  IF IsNaN(rsi_val) THEN NoPair
        ELSE IF window_rsi = {} THEN [max |-> here, min |-> here]
        ELSE [max |-> TrackMax(a, i, rsi_val, close_val, FEq(rsi_val, SetMax(window_rsi))),
              min |-> TrackMin(a, i, rsi_val, close_val, FEq(rsi_val, SetMin(window_rsi)))]

RECURSIVE RunLoop(_, _, _, _)
RunLoop(a, df, lookback, i) ==
    IF i >= Len(df) THEN a
    ELSE RunLoop(LoopBody(a, df, lookback, i), df, lookback, i + 1)

\* compute_divergences(df, lookback): the arrays it writes into the frame
ComputeDivergences(df, lookback) == RunLoop(NewArrays(Len(df)), df, lookback, 0)

-----------------------------------------------------------------------------
\* compute_divergences applied to bounded frames, one loop iteration at a time

DivCloses == {1, 2}
DivRsis == {1, 2, 3}

\* a frame as add_rsi leaves it: RSI undefined on a prefix only
DivFrames ==
    {f \in [1 .. MaxBars -> [close : DivCloses, rsi : DivRsis \cup {NaN}]] :
        \A j \in 2 .. MaxBars : IsNaN(f[j].rsi) => IsNaN(f[j - 1].rsi)}

TrackerIdle ==
    /\ bull_trigger = NewTracker.bull_trigger
    /\ bear_trigger = NewTracker.bear_trigger
    /\ row = NoRow
    /\ signals = NoSignals
    /\ bull_broke = FALSE
    /\ bear_broke = FALSE
    /\ upc = 0
    /\ GhostInit

DivInit ==
    /\ d_df \in DivFrames
    /\ d_lookback \in 1 .. MaxLookback
    /\ d_i = 0
    /\ arr = NewArrays(Len(d_df))
    /\ w_latest = NoFlags
    /\ pre_clamp = NoPair
    /\ arr_multi = arr
    /\ arr_nifty = arr
    /\ TrackerIdle
    /\ MainIdle
    /\ OnceIdle
    /\ MultiIdle
    /\ NiftyIdle

DivIterate ==
    /\ d_i < Len(d_df)
    /\ arr' = LoopBody(arr, d_df, d_lookback, d_i)
    /\ pre_clamp' = PreClamp(arr, d_df, d_lookback, d_i)
    /\ d_i' = d_i + 1
    /\ UNCHANGED <<d_df, d_lookback, w_latest, arr_multi, arr_nifty, trackerVars, ghostVars, mainVars, multiVars, market_open, niftyVars, onceVars>>

DivNext == DivIterate

DivSpec == DivInit /\ [][DivNext]_vars

-----------------------------------------------------------------------------
\* Properties of compute_divergences (under DivSpec)

Defined(x) == ~IsNaN(x)
Rsi(i) == Iloc(d_df, i).rsi
MaxRsi(i) == Iloc(arr.max_rsi_arr, i)
MaxClose(i) == Iloc(arr.max_close_arr, i)
MinRsi(i) == Iloc(arr.min_rsi_arr, i)
MinClose(i) == Iloc(arr.min_close_arr, i)
Done == 0 .. d_i - 1

BearishAt(i) ==
    /\ i >= 2
    /\ Defined(Rsi(i)) /\ Defined(Rsi(i - 1)) /\ Defined(MaxClose(i - 1))
    /\ Defined(MaxClose(i - 2)) /\ Defined(MaxRsi(i))
    /\ MaxClose(i - 1) > MaxClose(i - 2)
    /\ Rsi(i - 1) < MaxRsi(i)
    /\ Rsi(i) <= Rsi(i - 1)

BullishAt(i) ==
    /\ i >= 2
    /\ Defined(Rsi(i)) /\ Defined(Rsi(i - 1)) /\ Defined(MinClose(i - 1))
    /\ Defined(MinClose(i - 2)) /\ Defined(MinRsi(i))
    /\ MinClose(i - 1) < MinClose(i - 2)
    /\ Rsi(i - 1) > MinRsi(i)
    /\ Rsi(i) >= Rsi(i - 1)

\* C9: for every bar i the loop has passed, divbear_close[i] is true exactly
\* when i >= 2, RSI[i], RSI[i-1], maxClose[i-1], maxClose[i-2] and maxRSI[i]
\* are defined, maxClose[i-1] > maxClose[i-2], RSI[i-1] < maxRSI[i] (the
\* current bar's maxRSI) and RSI[i] <= RSI[i-1].
C9_BearishFlag == \A i \in Done : Iloc(arr.divbear, i) = BearishAt(i)

\* a bearish flag set on a bar whose maxRSI differs from the bar before
C9_Witness ==
    \E i \in Done : Iloc(arr.divbear, i) /\ MaxRsi(i) > Rsi(i)
                    /\ MaxClose(i - 1) > MaxClose(i - 2)

\* C10: for every bar i the loop has passed, divbull_close[i] is true
\* exactly when i >= 2, RSI[i], RSI[i-1], minClose[i-1], minClose[i-2] and
\* minRSI[i] are defined, minClose[i-1] < minClose[i-2], RSI[i-1] > minRSI[i]
\* and RSI[i] >= RSI[i-1]; the definedness of maxClose[i-1], maxClose[i-2]
\* and maxRSI[i] takes no part.
C10_BullishFlag == \A i \in Done : Iloc(arr.divbull, i) = BullishAt(i)

\* a bullish flag set on a bar with equal RSI on the bar before
C10_Witness ==
    \E i \in Done : Iloc(arr.divbull, i) /\ Rsi(i) = Rsi(i - 1)
                    /\ MinClose(i - 1) < MinClose(i - 2)

\* divbull[i] of multi_rsi_divergence_bot.py: the bullish test stands beside
\* the bearish guard, not inside it
DivBullMulti(a, df, i) ==
    /\ i >= 2
    /\ LET rsi1 == Iloc(df, i - 1).rsi
           mr1 == Iloc(a.min_rsi_arr, i)
           minc1 == Iloc(a.min_close_arr, i - 1)
           minc2 == Iloc(a.min_close_arr, i - 2)
       IN  /\ ~(IsNaN(minc1) \/ IsNaN(minc2) \/ IsNaN(mr1))
           /\ FLt(minc1, minc2) /\ FGt(rsi1, mr1) /\ FGe(Iloc(df, i).rsi, rsi1)

\* C11: for every bar i the loop has passed, divbear_close[i] and
\* divbull_close[i] are not both true, with the bullish test of either bot.
C11_OneFlagPerBar ==
    \A i \in Done :
        /\ ~(Iloc(arr.divbear, i) /\ Iloc(arr.divbull, i))
        /\ ~(Iloc(arr.divbear, i) /\ DivBullMulti(arr, d_df, i))

\* a bearish flag on a bar whose RSI equals that of the bar before, the one
\* RSI relation both tests accept, with the min track defined
C11_Witness ==
    \E i \in Done :
        /\ Iloc(arr.divbear, i) /\ Rsi(i) = Rsi(i - 1)
        /\ Defined(MinClose(i - 1)) /\ Defined(MinClose(i - 2)) /\ Defined(MinRsi(i))
        /\ ~Iloc(arr.divbull, i)

Close(i) == Iloc(d_df, i).close

\* the defined RSI values of the lookback window that ends at bar i
Window(i) == {Rsi(j) : j \in Max2(0, i - d_lookback + 1) .. i} \ {NaN}

\* C12: for every bar i the loop has passed whose RSI is defined and equals
\* the largest defined RSI of its lookback window, an older bar of the
\* window having the same value or not, maxRSI[i] = RSI[i] and maxClose[i] =
\* close[i]; and the same with the smallest RSI for minRSI[i] and minClose[i].
C12_TieAnchorsCurrentBar ==
    \A i \in Done :
        Defined(Rsi(i)) =>
            /\ (\A x \in Window(i) : x <= Rsi(i))
                  => (MaxRsi(i) = Rsi(i) /\ MaxClose(i) = Close(i))
            /\ (\A x \in Window(i) : x >= Rsi(i))
                  => (MinRsi(i) = Rsi(i) /\ MinClose(i) = Close(i))

\* a bar that ties with the anchor of the bar before, whose close was
\* higher: the max track has left the old anchor for the current bar
C12_Witness ==
    \E i \in Done :
        /\ i >= 1 /\ Defined(Rsi(i)) /\ \A x \in Window(i) : x <= Rsi(i)
        /\ MaxRsi(i - 1) = Rsi(i) /\ MaxClose(i - 1) > Close(i)
        /\ MaxClose(i) = Close(i)

\* the bar the last loop iteration worked on
Last == d_i - 1

\* C21: at the bar the loop has just passed, if its RSI is defined: without
\* a previous anchor (i = 0 or maxRSI[i-1] undefined) the max pair and the
\* min pair are, before the clamps, the bar's own RSI and close; with a
\* previous anchor and an RSI below the window's highest, the max pair is
\* before the clamp maxRSI[i-1], maxClose[i-1]; with a previous anchor and
\* an RSI above the window's lowest, the min pair is minRSI[i-1],
\* minClose[i-1].
C21_CarryForward ==
    (d_i > 0 /\ Defined(Rsi(Last))) =>
        LET here == [rsi |-> Rsi(Last), close |-> Close(Last)]
        IN  /\ (Last = 0 \/ ~Defined(MaxRsi(Last - 1))) => pre_clamp.max = here
            /\ (Last = 0 \/ ~Defined(MinRsi(Last - 1))) => pre_clamp.min = here
            /\ (Last > 0 /\ Defined(MaxRsi(Last - 1)) /\ \E x \in Window(Last) : x > Rsi(Last))
                  => pre_clamp.max = [rsi |-> MaxRsi(Last - 1), close |-> MaxClose(Last - 1)]
            /\ (Last > 0 /\ Defined(MinRsi(Last - 1)) /\ \E x \in Window(Last) : x < Rsi(Last))
                  => pre_clamp.min = [rsi |-> MinRsi(Last - 1), close |-> MinClose(Last - 1)]

\* after an undefined prefix, a bar below its window's highest RSI carries
\* an anchor whose RSI and close both differ from its own
C21_Witness ==
    /\ d_i > 2 /\ ~Defined(Rsi(0)) /\ Defined(Rsi(Last))
    /\ \E x \in Window(Last) : x > Rsi(Last)
    /\ pre_clamp.max = [rsi |-> MaxRsi(Last - 1), close |-> MaxClose(Last - 1)]
    /\ pre_clamp.max.rsi # Rsi(Last) /\ pre_clamp.max.close # Close(Last)

\* C22: for every bar i the loop has passed whose RSI is defined,
\* maxClose[i] >= close[i], maxRSI[i] >= RSI[i], minClose[i] <= close[i] and
\* minRSI[i] <= RSI[i], the anchor being the bar's own or a carried one.
C22_NeverUnderstates ==
    \A i \in Done :
        Defined(Rsi(i)) =>
            /\ Defined(MaxClose(i)) /\ MaxClose(i) >= Close(i)
            /\ Defined(MaxRsi(i)) /\ MaxRsi(i) >= Rsi(i)
            /\ Defined(MinClose(i)) /\ MinClose(i) <= Close(i)
            /\ Defined(MinRsi(i)) /\ MinRsi(i) <= Rsi(i)

\* the max anchor was carried from an older bar with a lower close, and the
\* clamp has raised maxClose to the close of the current bar
C22_Witness ==
    /\ d_i > 1 /\ Defined(Rsi(Last))
    /\ pre_clamp.max = [rsi |-> MaxRsi(Last - 1), close |-> MaxClose(Last - 1)]
    /\ pre_clamp.max.rsi > Rsi(Last) /\ pre_clamp.max.close < Close(Last)
    /\ MaxClose(Last) = Close(Last)

\* C23 as stated: for every bar i the loop has passed whose RSI is defined,
\* maxRSI[i] is the highest and minRSI[i] the lowest RSI of the lookback
\* window that ends at bar i.
C23_TrackIsWindowExtremum ==
    \A i \in Done :
        Defined(Rsi(i)) =>
            (MaxRsi(i) = SetMax(Window(i)) /\ MinRsi(i) = SetMin(Window(i)))

\* C23, amended: for every bar i the loop has passed whose RSI is defined,
\* maxRSI[i] is the RSI of bar i or of an earlier bar of the frame, it is not
\* below the highest RSI of the lookback window that ends at bar i, and it
\* is that highest RSI when bar i holds it; the same for minRSI[i] with the
\* lowest RSI.
C23_TrackBoundsWindow ==
    \A i \in Done :
        Defined(Rsi(i)) =>
            /\ \E j \in 0 .. i : MaxRsi(i) = Rsi(j)
            /\ \E j \in 0 .. i : MinRsi(i) = Rsi(j)
            /\ MaxRsi(i) >= SetMax(Window(i))
            /\ MinRsi(i) <= SetMin(Window(i))
            /\ Rsi(i) = SetMax(Window(i)) => MaxRsi(i) = Rsi(i)
            /\ Rsi(i) = SetMin(Window(i)) => MinRsi(i) = Rsi(i)

\* maxRSI of a bar is above every RSI of its window: the value of a bar
\* that has left the window
C23_Witness ==
    \E i \in Done :
        /\ Defined(Rsi(i)) /\ MaxRsi(i) > SetMax(Window(i))
        /\ \E j \in 0 .. i - d_lookback : MaxRsi(i) = Rsi(j)

\* C24: for every bar i the loop has passed, each of maxRSI[i], maxClose[i],
\* minRSI[i], minClose[i] is defined exactly when RSI[i] is defined, and a
\* bar with undefined RSI has both divergence flags false.
C24_DefinedWithRsi ==
    \A i \in Done :
        /\ Defined(MaxRsi(i)) = Defined(Rsi(i))
        /\ Defined(MaxClose(i)) = Defined(Rsi(i))
        /\ Defined(MinRsi(i)) = Defined(Rsi(i))
        /\ Defined(MinClose(i)) = Defined(Rsi(i))
        /\ ~Defined(Rsi(i)) => (~Iloc(arr.divbear, i) /\ ~Iloc(arr.divbull, i))

\* the first bar with a defined RSI, after an undefined one: its four
\* values are its own RSI and close, those of the bar before are undefined
C24_Witness ==
    /\ d_i > 1 /\ ~Defined(Rsi(Last - 1)) /\ Defined(Rsi(Last))
    /\ ~Defined(MaxRsi(Last - 1)) /\ ~Defined(MinClose(Last - 1))
    /\ MaxRsi(Last) = Rsi(Last) /\ MinRsi(Last) = Rsi(Last)
    /\ MaxClose(Last) = Close(Last) /\ MinClose(Last) = Close(Last)

\* C28: for every bar i the loop has passed whose RSI is defined, maxRSI[i]
\* is at least and minRSI[i] at most every defined RSI of the lookback
\* window that ends at bar i; and at the bar the loop has just passed the
\* max pair before the clamp already has an RSI >= the bar's (greater when
\* the bar is below its window's highest) and the min pair one <= it, so
\* that the two RSI clamps leave maxRSI and minRSI as the if/elif/else set
\* them.
C28_RsiClampIdle ==
    /\ \A i \in Done :
          Defined(Rsi(i)) =>
              \A x \in Window(i) : MaxRsi(i) >= x /\ MinRsi(i) <= x
    /\ (d_i > 0 /\ Defined(Rsi(Last))) =>
          /\ pre_clamp.max.rsi >= Rsi(Last) /\ MaxRsi(Last) = pre_clamp.max.rsi
          /\ pre_clamp.min.rsi <= Rsi(Last) /\ MinRsi(Last) = pre_clamp.min.rsi
          /\ (\E x \in Window(Last) : x > Rsi(Last)) => pre_clamp.max.rsi > Rsi(Last)
          /\ (\E x \in Window(Last) : x < Rsi(Last)) => pre_clamp.min.rsi < Rsi(Last)

\* a bar above its window's lowest RSI whose carried min pair had a higher
\* close: the close clamp has lowered minClose, minRSI is the carried one
C28_Witness ==
    /\ d_i > 1 /\ Defined(Rsi(Last))
    /\ \E x \in Window(Last) : x < Rsi(Last)
    /\ pre_clamp.min.rsi = MinRsi(Last - 1) /\ MinRsi(Last) = MinRsi(Last - 1)
    /\ pre_clamp.min.close > Close(Last) /\ MinClose(Last) = Close(Last)

\* C29: for every bar i the loop has passed, with any lookback >= 1:
\* divbear_close[i] implies that RSI[i] is below the highest RSI of the
\* lookback window that ends at bar i and that maxRSI[i] = maxRSI[i-1];
\* divbull_close[i] implies that RSI[i] is above the lowest RSI of that
\* window and that minRSI[i] = minRSI[i-1].
C29_NoFlagOnNewExtreme ==
    \A i \in Done :
        /\ Iloc(arr.divbear, i)
              => (Rsi(i) < SetMax(Window(i)) /\ Defined(MaxRsi(i - 1))
                  /\ MaxRsi(i) = MaxRsi(i - 1))
        /\ Iloc(arr.divbull, i)
              => (Rsi(i) > SetMin(Window(i)) /\ Defined(MinRsi(i - 1))
                  /\ MinRsi(i) = MinRsi(i - 1))

\* a bearish flag on a bar below its window's highest RSI, with maxRSI
\* carried over the bar before, which was below it too
C29_Witness ==
    \E i \in Done :
        /\ Iloc(arr.divbear, i) /\ Rsi(i) < SetMax(Window(i))
        /\ MaxRsi(i) = MaxRsi(i - 1) /\ Rsi(i - 1) < MaxRsi(i - 1)
        /\ Rsi(i) < Rsi(i - 1)

-----------------------------------------------------------------------------
\* The trailing window of each cycle beside bar-by-bar feeding.  The bars of
\* d_df close one by one; arr is the track kept over all of them, one loop
\* iteration per bar, and each cycle runs compute_divergences afresh on the
\* last WindowBars closed bars (df.tail(count)) and reads the newest row.

DfTail(df, count) == SubSeq(df, Max2(1, Len(df) - count + 1), Len(df))

\* df.iloc[-1] of compute_divergences(df), its two flags
LatestFlags(df, lookback) ==
    LET a == ComputeDivergences(df, lookback)
    IN  [divbear_close |-> a.divbear[Len(df)], divbull_close |-> a.divbull[Len(df)]]

FeedInit == DivInit

FeedBar ==
    /\ d_i < Len(d_df)
    /\ arr' = LoopBody(arr, d_df, d_lookback, d_i)
    /\ pre_clamp' = PreClamp(arr, d_df, d_lookback, d_i)
    /\ w_latest' = LatestFlags(DfTail(SubSeq(d_df, 1, d_i + 1), WindowBars), d_lookback)
    /\ d_i' = d_i + 1
    /\ UNCHANGED <<d_df, d_lookback, arr_multi, arr_nifty, trackerVars, ghostVars, mainVars, multiVars, market_open, niftyVars, onceVars>>

FeedNext == FeedBar

FeedSpec == FeedInit /\ [][FeedNext]_vars

\* C13: in every cycle the flags of the newest bar computed from the
\* trailing window equal the flags bar-by-bar feeding over the whole history
\* gives that bar, the per-bar RSI values being the same in both.
C13_WindowEqualsContinuous ==
    d_i > 0 =>
        /\ w_latest.divbear_close = Iloc(arr.divbear, d_i - 1)
        /\ w_latest.divbull_close = Iloc(arr.divbull, d_i - 1)

-----------------------------------------------------------------------------
\* main of rsi_divergence_bot.py: the polling loop

MinBars == RSI_LENGTH + LOOKBACK + 5

\* the last k candles the exchange holds: the "result" of one request
Response(m, k) == SubSeq(m, Len(m) - k + 1, Len(m))

FetchCandles_KeepLast(result, count) ==
    IF result = << >> THEN << >>
    ELSE SubSeq(result, Max2(1, Len(result) - count + 1), Len(result))

\* fetch_candles: an empty result gives an empty frame; otherwise the last
\* row is dropped when there is more than one, and the last count rows kept
FetchCandles(result, count) ==
    IF result = << >> THEN << >>
    ELSE LET df == IF Len(result) > 1 THEN SubSeq(result, 1, Len(result) - 1)
                   ELSE result
         IN  SubSeq(df, Max2(1, Len(df) - count + 1), Len(df))

\* add_rsi: the rsi column.  ta.rsi leaves the first length entries
\* undefined; the value of a later entry is the one the candle carries
AddRsi(df, length) ==
    [j \in 1 .. Len(df) |-> [df[j] EXCEPT !.rsi = IF j <= length THEN NaN ELSE @]]

\* df.iloc[-1] after add_rsi and compute_divergences
LatestRow(df0) ==
    LET df == AddRsi(df0, RSI_LENGTH)
        a == ComputeDivergences(df, LOOKBACK)
        n == Len(df)
    IN  [time |-> df[n].time, close |-> df[n].close, high |-> df[n].high,
         low |-> df[n].low, rsi |-> df[n].rsi,
         divbear_close |-> a.divbear[n], divbull_close |-> a.divbull[n]]

TooShort_OffByOne(n) == n = 0 \/ n < MinBars - 1

TooShort_WarmUpOnly(n) == n = 0 \/ n < RSI_LENGTH + 1

\* df.empty or len(df) < RSI_LENGTH + LOOKBACK + 5
TooShort(n) == n = 0 \/ n < MinBars

IsDuplicate_Never(bar_time, last) == Some(bar_time) = last /\ bar_time < 0

\* bar_time == last_bar_time
IsDuplicate(bar_time, last) == Some(bar_time) = last

SignalOrder_ConfirmationsFirst == <<"buy", "sell", "divbear", "divbull">>

\* the signals.items() loop: one alert per fired signal, in dict order
SignalOrder == <<"divbear", "divbull", "buy", "sell">>

Fired(sigs, time) ==
    LET one(k) == IF sigs[SignalOrder[k]]
                  THEN <<[sig |-> SignalOrder[k], time |-> time]>> ELSE << >>
    IN  one(1) \o one(2) \o one(3) \o one(4)

\* what requests.post may do: answer 200, answer another status, raise
TelegramReplies == {"200", "error", "exception"}

SendTelegram_Raises(reply) ==
    IF DRY_RUN THEN "dry-run"
    ELSE IF reply = "exception" THEN "raised"
    ELSE IF reply # "200" THEN "warned" ELSE "sent"

\* send_telegram(message): how the call ends.  The exception of
\* requests.post is caught and logged inside
SendTelegram(reply) ==
    IF DRY_RUN THEN "dry-run"
    ELSE IF reply = "exception" THEN "failed"
    ELSE IF reply # "200" THEN "warned" ELSE "sent"

\* the loop over signals.items() from its k-th fired signal on: one
\* send_telegram per fired signal; a call that raised would leave the loop
\* for the except clause of the cycle
RECURSIVE AlertLoop(_, _, _)
AlertLoop(fired, replies, k) ==
    IF k > Len(fired) THEN << >>
    ELSE LET result == SendTelegram(replies[k])
             call == <<[sig |-> fired[k].sig, time |-> fired[k].time, result |-> result]>>
         IN  IF result = "raised" THEN call
             ELSE call \o AlertLoop(fired, replies, k + 1)

\* the alerts handed to send_telegram by these calls
Sent(sends) == [j \in 1 .. Len(sends) |-> [sig |-> sends[j].sig, time |-> sends[j].time]]

NewestTime(df) == IF df = << >> THEN None ELSE Some(df[Len(df)].time)

\* the candles at process start and the candles that close later
HistoryBar(t) ==
    [time |-> t, close |-> 2, high |-> 3, low |-> 1,
     rsi |-> IF t = MinBars - 1 THEN RSI_SELL_MAX + 1
             ELSE IF t = MinBars THEN RSI_BUY_MIN - 1 ELSE 50]

History == [t \in 1 .. MinBars |-> HistoryBar(t)]

\* a candle that closes up on a strong RSI or down on a weak one; its high
\* and low are numbers, or NaN when the exchange sent something that
\* pd.to_numeric(errors="coerce") could not read
NewBars(t) ==
    {[time |-> t, close |-> cr[1], high |-> IF ok THEN cr[1] + 1 ELSE NaN,
      low |-> IF ok THEN cr[1] - 1 ELSE NaN, rsi |-> cr[2]] :
        cr \in {<<3, RSI_SELL_MAX>>, <<1, RSI_BUY_MIN>>}, ok \in BOOLEAN}

\* what one request may return: nothing (an error or an empty result), one
\* row, a short range, or everything the exchange holds
ResponseSizes(m) == {0, 1, MinBars, MinBars + 1, Len(m)} \cap (0 .. Len(m))

Init ==
    /\ market = History
    /\ last_bar_time = None
    /\ outcome = "start"
    /\ alerts = << >>
    /\ df_len = 0
    /\ df_newest = None
    /\ n_updates = 0
    /\ result_newest = None
    /\ fed = << >>
    /\ delivery = << >>
    /\ TrackerIdle
    /\ DivIdle
    /\ MultiIdle
    /\ NiftyIdle
    /\ OnceIdle

\* the forming candle closes and the next one opens
MarketTick ==
    /\ Len(market) < MinBars + MaxNewBars
    /\ \E b \in NewBars(Len(market) + 1) : market' = Append(market, b)
    /\ UNCHANGED <<last_bar_time, outcome, alerts, df_len, df_newest, n_updates,
                   result_newest, fed, delivery, trackerVars, ghostVars, divVars, multiVars, market_open, niftyVars, onceVars>>

\* a cycle that ends at "Not enough candles - skipping cycle"
CycleShort ==
    \E k \in ResponseSizes(market) :
      LET df == FetchCandles(Response(market, k), CANDLES_FETCH)
      IN  /\ TooShort(Len(df))
          /\ outcome' = "short"
          /\ df_len' = Len(df)
          /\ df_newest' = NewestTime(df)
          /\ result_newest' = NewestTime(Response(market, k))
          /\ delivery' = << >>
          /\ UNCHANGED <<market, last_bar_time, alerts, n_updates, fed,
                         trackerVars, ghostVars, divVars, multiVars, market_open, niftyVars, onceVars>>

\* a cycle that ends at "Bar already processed"
CycleDuplicate ==
    \E k \in ResponseSizes(market) :
      LET df == FetchCandles(Response(market, k), CANDLES_FETCH)
      IN  /\ ~TooShort(Len(df))
          /\ IsDuplicate(df[Len(df)].time, last_bar_time)
          /\ outcome' = "duplicate"
          /\ df_len' = Len(df)
          /\ df_newest' = NewestTime(df)
          /\ result_newest' = NewestTime(Response(market, k))
          /\ delivery' = << >>
          /\ UNCHANGED <<market, last_bar_time, alerts, n_updates, fed,
                         trackerVars, ghostVars, divVars, multiVars, market_open, niftyVars, onceVars>>

\* a cycle that processes the latest closed candle: last_bar_time, then
\* tracker.update(latest), then one send_telegram per fired signal, each
\* with the reply Telegram happens to give
CycleProcess ==
    \E k \in ResponseSizes(market) :
      LET df == FetchCandles(Response(market, k), CANDLES_FETCH)
          self == [bull_trigger |-> bull_trigger, bear_trigger |-> bear_trigger]
      IN  /\ ~TooShort(Len(df))
          /\ ~IsDuplicate(df[Len(df)].time, last_bar_time)
          /\ \E lat \in {LatestRow(df)} :
               \E u \in {Update(self, lat)} :
                 /\ last_bar_time' = Some(lat.time)
                 /\ row' = lat
                 /\ fed' = Append(fed, lat.time)
                 /\ SetFrame(u)
                 /\ \E replies \in [1 .. Len(Fired(u.signals, lat.time)) -> TelegramReplies] :
                      LET sends == AlertLoop(Fired(u.signals, lat.time), replies, 1)
                      IN  /\ delivery' = sends
                          /\ alerts' = alerts \o Sent(sends)
                 /\ bull_hit' = HitBull(Step1(EnterUpdate(self), lat), lat)
                 /\ bear_hit' = HitBear(Step1(EnterUpdate(self), lat), lat)
                 /\ bull_seen' = (bull_seen \/ lat.divbull_close)
                 /\ bear_seen' = (bear_seen \/ lat.divbear_close)
          /\ outcome' = "processed"
          /\ df_len' = Len(df)
          /\ df_newest' = NewestTime(df)
          /\ result_newest' = NewestTime(Response(market, k))
          /\ n_updates' = n_updates + 1
          /\ entry_bull' = bull_trigger
          /\ entry_bear' = bear_trigger
          /\ UNCHANGED <<market, upc, bull_spent, bear_spent, divVars, multiVars, market_open, niftyVars, onceVars>>

Next == MarketTick \/ CycleShort \/ CycleDuplicate \/ CycleProcess

Spec == Init /\ [][Next]_vars

-----------------------------------------------------------------------------
\* Properties of the polling loop (under Spec)

\* a step of the loop (the other steps are the exchange's)
LoopStep == market' = market

EngineUnchanged ==
    UNCHANGED <<bull_trigger, bear_trigger, last_bar_time, alerts, n_updates,
                signals, row>>

\* C2: after the loop has processed a bar on which divbear is true,
\* bear_trigger is that bar's low and bull_trigger is unset, so that the
\* level is armed for the bars that follow; after a bar on which divbull is
\* true, bull_trigger is that bar's high and bear_trigger is unset.
C2_ArmedAfterDivergenceBar ==
    n_updates > 0 =>
        /\ signals.divbear => (bear_trigger = Some(row.low) /\ bull_trigger = None)
        /\ signals.divbull => (bull_trigger = Some(row.high) /\ bear_trigger = None)

\* C7: a cycle whose window is long enough and whose newest bar has the
\* time already in last_bar_time ends in the duplicate branch: no call of
\* tracker.update, no alert, triggers and last_bar_time as they were.
C7_DuplicateIsNoOp ==
    [][(LoopStep /\ df_len' >= MinBars /\ df_newest' = last_bar_time)
         => (EngineUnchanged /\ outcome' = "duplicate")]_vars

\* a bar was processed with an alert and left a trigger armed, and a later
\* cycle delivered it again
C7_Witness ==
    outcome = "duplicate" /\ n_updates > 0 /\ alerts # << >>
    /\ bear_trigger # None /\ df_newest = last_bar_time

\* C8: a cycle whose window is empty or shorter than RSI_LENGTH + LOOKBACK
\* + 5 = 26 bars ends in the skip branch of the loop: no call of
\* tracker.update, no alert, triggers and last_bar_time as they were; a
\* window of exactly 26 bars with a new newest bar is processed.
C8_MinimumHistory ==
    /\ [][(LoopStep /\ df_len' < 26)
            => (EngineUnchanged /\ outcome' = "short")]_vars
    /\ [][(LoopStep /\ df_len' = 26 /\ df_newest' # last_bar_time)
            => (outcome' = "processed" /\ n_updates' = n_updates + 1
                /\ last_bar_time' = df_newest')]_vars

\* a window of 25 bars skipped by a loop that has processed bars before
C8_Witness ==
    outcome = "short" /\ df_len = MinBars - 1 /\ last_bar_time # None
    /\ alerts # << >>

\* the times of the rows of the last cycle's window (the exchange's candles
\* carry consecutive times)
WindowTimes == IF df_newest = None THEN {}
               ELSE (df_newest[1] - df_len + 1) .. df_newest[1]

\* C14: when a cycle has fed the newest bar of its window to
\* tracker.update, every earlier bar of that window has been fed to it
\* before; and the bars are fed once each, in the order of their times.
C14_EveryClosedBarFed ==
    /\ outcome = "processed" =>
          \A t \in WindowTimes : \E j \in 1 .. Len(fed) : fed[j] = t
    /\ \A i, j \in 1 .. Len(fed) : i < j => fed[i] < fed[j]

\* C15: whatever each send_telegram call of a processing cycle ended in,
\* none raised into the loop, every fired signal of the bar got its call,
\* the triggers and last_bar_time are the ones tracker.update and the
\* assignment before it left, and no alert of a bar is handed to
\* send_telegram a second time in a later cycle.
C15_FailedSendHarmless ==
    /\ n_updates > 0 =>
          LET u == Update([bull_trigger |-> entry_bull, bear_trigger |-> entry_bear], row)
          IN  /\ bull_trigger = u.bull_trigger
              /\ bear_trigger = u.bear_trigger
              /\ last_bar_time = Some(row.time)
              /\ outcome = "processed" => Sent(delivery) = Fired(signals, row.time)
              /\ \A j \in 1 .. Len(delivery) : delivery[j].result # "raised"
    /\ \A i, j \in 1 .. Len(alerts) : i < j => alerts[i] # alerts[j]

\* the first send of a bar failed with an exception and the second signal
\* of the bar was sent all the same
C15_Witness ==
    /\ outcome = "processed"
    /\ Len(delivery) = 2
    /\ delivery[1].result = "failed" /\ delivery[2].result = "sent"
    /\ Sent(delivery) = Fired(signals, row.time)

\* C19: the row a cycle feeds to tracker.update is not the newest row of
\* the result the data source returned in that cycle; a frame whose newest
\* row is the result's newest row (a result of one row) is skipped.
C19_NeverTheFormingBar ==
    /\ outcome = "processed" => Some(row.time) # result_newest
    /\ (df_newest # None /\ df_newest = result_newest) => outcome = "short"

\* a processed bar that is the one before the result's newest row
C19_Witness ==
    outcome = "processed" /\ result_newest = Some(row.time + 1)
    /\ df_newest = Some(row.time) /\ df_len = MinBars

-----------------------------------------------------------------------------
\* main of multi_rsi_divergence_bot.py: one pass of `for tcfg in TARGETS`
\* per step.  What the fetcher, add_rsi and compute_divergences give a pass
\* is any frame length around the guard and any latest row.

\* three of the TARGETS: two intervals of one symbol, and a gated one
TARGETS ==
    <<[symbol |-> "BTCUSD", exchange |-> "Delta", interval |-> "5m", gated |-> FALSE],
      [symbol |-> "BTCUSD", exchange |-> "Delta", interval |-> "15m", gated |-> FALSE],
      [symbol |-> "Nifty50", exchange |-> "AngelOne", interval |-> "FIVE_MINUTE",
       gated |-> TRUE]>>

Key_SymbolOnly(t) == <<t.symbol>>

\* key = f"{sym}_{interval}"
Key(t) == <<t.symbol, t.interval>>

Keys == {Key(TARGETS[j]) : j \in 1 .. Len(TARGETS)}

\* the latest rows a pass may see: high and low are numbers, or NaN when
\* the exchange sent something pd.to_numeric(errors="coerce") could not read
MultiRows ==
    {[time |-> t, close |-> 0, high |-> hl, low |-> hl, rsi |-> RSI_BUY_MIN + 1,
      divbear_close |-> f[1], divbull_close |-> f[2]] :
        t \in 1 .. MaxMultiTime, hl \in {1, NaN}, f \in BOOLEAN \X BOOLEAN}

MultiLens == {0, MinBars - 1, MinBars}

\* trackers[key].update(latest): the tracker afterwards
UpdatedTracker(self, r) ==
    LET u == Update(self, r)
    IN  [bull_trigger |-> u.bull_trigger, bear_trigger |-> u.bear_trigger]

\* the dicts after the first loop of main, and the login
MultiInit ==
    /\ trackers = [k \in Keys |-> NewTracker]
    /\ last_bars = [k \in Keys |-> None]
    /\ aone_session \in BOOLEAN
    /\ m_pos = 1
    /\ m_outcome = "start"
    /\ market_open \in BOOLEAN
    /\ TrackerIdle
    /\ DivIdle
    /\ MainIdle
    /\ OnceIdle
    /\ NiftyIdle

NextTarget == m_pos' = IF m_pos = Len(TARGETS) THEN 1 ELSE m_pos + 1

MultiFrame == UNCHANGED <<aone_session, market_open, trackerVars, ghostVars, divVars,
                          mainVars, niftyVars, onceVars>>

HasFetcher_AnyExchange(tcfg) == tcfg.exchange \in {"Delta", "AngelOne"}

\* the branches of the fetch: Delta always, AngelOne with a session
HasFetcher(tcfg) ==
    tcfg.exchange = "Delta" \/ (tcfg.exchange = "AngelOne" /\ aone_session)

\* the loop over TARGETS is at one of them
InPass == m_pos \in 1 .. Len(TARGETS)

Shut_AllTargets(tcfg) == ~market_open

\* tcfg["gated"] and not is_market_open()
Shut(tcfg) == tcfg.gated /\ ~market_open

\* the clock passes the opening or the closing time of the market
MarketClock ==
    /\ market_open' = ~market_open
    /\ UNCHANGED <<trackerVars, ghostVars, divVars, mainVars, multiVars, niftyVars, onceVars>>

\* a gated target outside market hours
MultiClosed ==
    /\ InPass
    /\ Shut(TARGETS[m_pos])
    /\ m_outcome' = "closed"
    /\ NextTarget
    /\ UNCHANGED <<trackers, last_bars>>
    /\ MultiFrame

\* an Angel One target without a session
MultiNoSession ==
    /\ InPass
    /\ ~Shut(TARGETS[m_pos])
    /\ ~HasFetcher(TARGETS[m_pos])
    /\ m_outcome' = "no-session"
    /\ NextTarget
    /\ UNCHANGED <<trackers, last_bars>>
    /\ MultiFrame

\* the frame is empty (the fetch failed) or too short
MultiShort ==
    /\ InPass
    /\ ~Shut(TARGETS[m_pos])
    /\ HasFetcher(TARGETS[m_pos])
    /\ \E n \in MultiLens : TooShort(n)
    /\ m_outcome' = "short"
    /\ NextTarget
    /\ UNCHANGED <<trackers, last_bars>>
    /\ MultiFrame

\* latest["time"] == last_bars[key]
MultiDuplicate ==
    /\ InPass
    /\ ~Shut(TARGETS[m_pos])
    /\ HasFetcher(TARGETS[m_pos])
    /\ \E n \in MultiLens, r \in MultiRows :
         /\ ~TooShort(n)
         /\ IsDuplicate(r.time, last_bars[Key(TARGETS[m_pos])])
    /\ m_outcome' = "duplicate"
    /\ NextTarget
    /\ UNCHANGED <<trackers, last_bars>>
    /\ MultiFrame

\* last_bars[key] = latest["time"], then trackers[key].update(latest)
MultiProcess ==
    /\ InPass
    /\ ~Shut(TARGETS[m_pos])
    /\ HasFetcher(TARGETS[m_pos])
    /\ \E n \in MultiLens, r \in MultiRows :
         LET key == Key(TARGETS[m_pos])
         IN  /\ ~TooShort(n)
             /\ ~IsDuplicate(r.time, last_bars[key])
             /\ last_bars' = [last_bars EXCEPT ![key] = Some(r.time)]
             /\ trackers' = [trackers EXCEPT ![key] = UpdatedTracker(trackers[key], r)]
    /\ m_outcome' = "processed"
    /\ NextTarget
    /\ MultiFrame

MultiNext ==
    \/ MarketClock
    \/ MultiClosed \/ MultiNoSession \/ MultiShort \/ MultiDuplicate \/ MultiProcess

MultiSpec == MultiInit /\ [][MultiNext]_vars

\* the tracker and last-processed time of the j-th target
TargetState(j) == <<trackers[Key(TARGETS[j])], last_bars[Key(TARGETS[j])]>>

\* a step that is a pass of the loop (the other steps are the clock's)
PassStep == m_pos' # m_pos

\* C18: a pass of the loop for one target, whatever branch it ends in,
\* leaves the tracker and the last-processed time of every other target as
\* they were, and what it makes of its own is a function of its own tracker
\* and its own latest row alone.
C18_TargetsIsolated ==
    /\ [][\A j \in 1 .. Len(TARGETS) : j # m_pos => TargetState(j)' = TargetState(j)]_vars
    /\ [][\A j \in 1 .. Len(TARGETS) :
            (PassStep /\ j = m_pos /\ m_outcome' = "processed") =>
               \E r \in MultiRows :
                   TargetState(j)' = <<UpdatedTracker(TargetState(j)[1], r), Some(r.time)>>]_vars
    /\ [][\A j \in 1 .. Len(TARGETS) :
            (PassStep /\ j = m_pos /\ m_outcome' # "processed")
               => TargetState(j)' = TargetState(j)]_vars

\* the second target has just processed a bar that armed its bull trigger
\* while the first target, of the same symbol, holds a bear trigger and
\* another last-processed time
C18_Witness ==
    /\ m_pos = 3 /\ m_outcome = "processed"
    /\ TargetState(1)[1].bear_trigger # None
    /\ TargetState(2)[1].bull_trigger # None
    /\ TargetState(1)[2] # None /\ TargetState(1)[2] # TargetState(2)[2]

\* C32: the session of the login at startup is never assigned again, so
\* after a login that failed or raised it stays None for the whole run: a
\* pass for an AngelOne target then ends at the market-hours check or at
\* the fetch branch, with its tracker and last-processed time untouched,
\* while a pass for a Delta target always goes through its fetch and ends
\* in one of the branches behind it.
C32_NoSessionForTheRun ==
    /\ [][aone_session' = aone_session]_vars
    /\ [][\A j \in 1 .. Len(TARGETS) :
            (PassStep /\ j = m_pos /\ ~aone_session /\ TARGETS[j].exchange = "AngelOne")
               => /\ m_outcome' \in {"closed", "no-session"}
                  /\ TargetState(j)' = TargetState(j)]_vars
    /\ [][\A j \in 1 .. Len(TARGETS) :
            (PassStep /\ j = m_pos /\ TARGETS[j].exchange = "Delta")
               => m_outcome' \in {"short", "duplicate", "processed"}]_vars

\* without a session and in market hours, the pass for the AngelOne target
\* has just ended at the fetch branch; both Delta targets have processed
\* bars and the AngelOne target is as main created it
C32_Witness ==
    /\ ~aone_session /\ market_open
    /\ m_pos = 1 /\ m_outcome = "no-session"
    /\ TargetState(1)[2] # None /\ TargetState(2)[2] # None
    /\ TARGETS[3].exchange = "AngelOne"
    /\ TargetState(3) = <<NewTracker, None>>

-----------------------------------------------------------------------------
\* main of nifty50_rsi_divergence_bot.py: one iteration of `while True` per
\* step.  What fetch_candles, add_rsi and compute_divergences give an
\* iteration is any latest row; a session Angel One does not accept, or no
\* session object at all, makes fetch_candles return an empty frame.

MaxLogins == 2

Sessions == {"valid", "lost", "none"}

\* login_angel_one(): the SmartConnect object, or None when generateSession
\* refuses or raises
LoginAngelOne(accepted) == IF accepted THEN "valid" ELSE "none"

\* main up to the loop: it returns unless the login gave a session
NiftyInit ==
    /\ session = LoginAngelOne(TRUE)
    /\ logins = 0
    /\ beat = FALSE
    /\ market_open \in BOOLEAN
    /\ TrackerIdle
    /\ DivIdle
    /\ MainIdle
    /\ OnceIdle
    /\ MultiOff

NiftyRest ==
    UNCHANGED <<market, alerts, df_len, df_newest, n_updates, result_newest, fed,
                delivery, upc, bull_broke, bear_broke, ghostVars, divVars, multiVars,
                market_open, onceVars>>

\* not is_market_open(): sleep a minute and continue
NiftyClosed ==
    /\ session \in Sessions
    /\ ~market_open
    /\ outcome' = "closed"
    /\ beat' = ~beat
    /\ UNCHANGED <<bull_trigger, bear_trigger, signals, row, last_bar_time, session, logins>>
    /\ NiftyRest

\* fetch_candles returned an empty or a short frame: with a session that is
\* lost or None always (the error status, or the exception of the call on
\* None, is turned into an empty frame inside fetch_candles), with a valid
\* one when Angel One has too few candles
NiftyShort ==
    /\ session \in Sessions
    /\ market_open
    /\ session = "valid" => \E n \in MultiLens : TooShort(n)
    /\ outcome' = "short"
    /\ beat' = ~beat
    /\ UNCHANGED <<bull_trigger, bear_trigger, signals, row, last_bar_time, session, logins>>
    /\ NiftyRest

\* bar_time == last_bar_time
NiftyDuplicate ==
    /\ session = "valid"
    /\ market_open
    /\ \E r \in MultiRows : IsDuplicate(r.time, last_bar_time)
    /\ outcome' = "duplicate"
    /\ beat' = ~beat
    /\ UNCHANGED <<bull_trigger, bear_trigger, signals, row, last_bar_time, session, logins>>
    /\ NiftyRest

\* last_bar_time = bar_time, tracker.update(latest), the alerts
NiftyProcess ==
    /\ session = "valid"
    /\ market_open
    /\ \E r \in MultiRows :
         LET u == Update([bull_trigger |-> bull_trigger, bear_trigger |-> bear_trigger], r)
         IN  /\ ~IsDuplicate(r.time, last_bar_time)
             /\ last_bar_time' = Some(r.time)
             /\ row' = r
             /\ bull_trigger' = u.bull_trigger
             /\ bear_trigger' = u.bear_trigger
             /\ signals' = u.signals
    /\ outcome' = "processed"
    /\ beat' = ~beat
    /\ UNCHANGED <<session, logins>>
    /\ NiftyRest

\* a statement of the try block after the fetch raised: before the
\* assignment of last_bar_time ("frame"), between it and tracker.update
\* ("stamp") or after tracker.update ("alert"); the except clause calls
\* login_angel_one and assigns what it returns
NiftyRecover ==
    /\ session = "valid"
    /\ market_open
    /\ logins < MaxLogins
    /\ \E r \in MultiRows, at \in {"frame", "stamp", "alert"} :
         LET u == Update([bull_trigger |-> bull_trigger, bear_trigger |-> bear_trigger], r)
         IN  /\ ~IsDuplicate(r.time, last_bar_time)
             /\ last_bar_time' = IF at = "frame" THEN last_bar_time ELSE Some(r.time)
             /\ row' = IF at = "alert" THEN r ELSE row
             /\ bull_trigger' = IF at = "alert" THEN u.bull_trigger ELSE bull_trigger
             /\ bear_trigger' = IF at = "alert" THEN u.bear_trigger ELSE bear_trigger
             /\ signals' = IF at = "alert" THEN u.signals ELSE signals
    /\ \E accepted \in BOOLEAN : session' = LoginAngelOne(accepted)
    /\ logins' = logins + 1
    /\ outcome' = "recovery"
    /\ beat' = ~beat
    /\ NiftyRest

\* Angel One stops accepting the session
SessionLost ==
    /\ session = "valid"
    /\ session' = "lost"
    /\ UNCHANGED <<trackerVars, ghostVars, divVars, mainVars, multiVars, market_open,
                   logins, beat, onceVars>>

NiftyLoop == NiftyClosed \/ NiftyShort \/ NiftyDuplicate \/ NiftyProcess \/ NiftyRecover

NiftyNext ==
    \/ MarketClock
    \/ SessionLost
    \/ NiftyClosed \/ NiftyShort \/ NiftyDuplicate \/ NiftyProcess \/ NiftyRecover

NiftySpec == NiftyInit /\ [][NiftyNext]_vars

\* the loop never stops iterating (each branch ends in a sleep of at most
\* a minute), the market opens again after every close, and iterations keep
\* falling into market hours
FairNiftySpec ==
    /\ NiftySpec
    /\ WF_vars(NiftyLoop)
    /\ WF_vars(MarketClock /\ market_open')
    /\ SF_vars(NiftyLoop /\ market_open)

\* C25: whenever the session is lost while the loop runs, the loop
\* eventually calls login_angel_one again, so that the local session is no
\* longer the lost one.
C25_SessionRecovery == (session = "lost") ~> (session # "lost")

-----------------------------------------------------------------------------
\* Market-hours gating: either of the two bots that call is_market_open
\* runs, against the same clock

GateInit == MultiInit \/ NiftyInit

GateNext ==
    \/ MarketClock
    \/ MultiClosed \/ MultiNoSession \/ MultiShort \/ MultiDuplicate \/ MultiProcess
    \/ SessionLost
    \/ NiftyClosed \/ NiftyShort \/ NiftyDuplicate \/ NiftyProcess \/ NiftyRecover

GateSpec == GateInit /\ [][GateNext]_vars

\* an iteration of the `while True` of the Nifty bot
NiftyStep == beat' # beat

\* C26: in the multi bot a pass for a gated target while the market is
\* closed ends at the market-hours check, before the fetch, with the
\* target's tracker and last-processed time as they were, and a pass for a
\* target that is not gated never ends there, open or closed; in the Nifty
\* bot an iteration with the market closed ends at the market-hours check
\* with tracker, last_bar_time and session as they were.
C26_MarketHoursGate ==
    /\ [][(InPass /\ PassStep /\ TARGETS[m_pos].gated /\ ~market_open)
            => (m_outcome' = "closed" /\ UNCHANGED <<trackers, last_bars>>)]_vars
    /\ [][(InPass /\ PassStep /\ ~TARGETS[m_pos].gated) => m_outcome' # "closed"]_vars
    /\ [][(InPass /\ PassStep /\ market_open) => m_outcome' # "closed"]_vars
    /\ [][(NiftyStep /\ ~market_open)
            => (outcome' = "closed"
                /\ UNCHANGED <<bull_trigger, bear_trigger, last_bar_time, signals, row,
                               session, logins>>)]_vars

\* with the market closed, a cycle of the multi bot has processed a bar of
\* both ungated targets and has just skipped the gated one, which has a
\* session but has never been processed
C26_Witness ==
    /\ ~market_open /\ m_pos = 1 /\ m_outcome = "closed" /\ aone_session
    /\ TargetState(1)[2] # None /\ TargetState(2)[2] # None
    /\ TargetState(3) = <<NewTracker, None>>

-----------------------------------------------------------------------------
\* The copies of the strategy in multi_rsi_divergence_bot.py and
\* nifty50_rsi_divergence_bot.py, beside the one of rsi_divergence_bot.py

\* "Update Highs": the carry branch comes second, with the negated test
TrackMaxMulti(a, i, rsi_val, close_val, hb0) ==
    IF hb0
    THEN [rsi |-> rsi_val, close |-> close_val]
    ELSE IF i > 0 /\ ~IsNaN(Iloc(a.max_rsi_arr, i - 1))
    THEN [rsi |-> Iloc(a.max_rsi_arr, i - 1), close |-> Iloc(a.max_close_arr, i - 1)]
    ELSE [rsi |-> rsi_val, close |-> close_val]

\* "Update Lows"
TrackMinMulti(a, i, rsi_val, close_val, lb0) ==
    IF lb0
    THEN [rsi |-> rsi_val, close |-> close_val]
    ELSE IF i > 0 /\ ~IsNaN(Iloc(a.min_rsi_arr, i - 1))
    THEN [rsi |-> Iloc(a.min_rsi_arr, i - 1), close |-> Iloc(a.min_close_arr, i - 1)]
    ELSE [rsi |-> rsi_val, close |-> close_val]

DivBearMulti_Strict(a, df, i) ==
    /\ i >= 2
    /\ LET mc1 == Iloc(a.max_close_arr, i - 1)
           mc2 == Iloc(a.max_close_arr, i - 2)
           rsi1 == Iloc(df, i - 1).rsi
           maxr == Iloc(a.max_rsi_arr, i)
       IN  /\ ~(IsNaN(mc1) \/ IsNaN(mc2) \/ IsNaN(rsi1) \/ IsNaN(maxr))
           /\ FGt(mc1, mc2) /\ FLt(rsi1, maxr) /\ FLt(Iloc(df, i).rsi, rsi1)

\* divbear[i] of multi_rsi_divergence_bot.py
DivBearMulti(a, df, i) ==
    /\ i >= 2
    /\ LET mc1 == Iloc(a.max_close_arr, i - 1)
           mc2 == Iloc(a.max_close_arr, i - 2)
           rsi1 == Iloc(df, i - 1).rsi
           maxr == Iloc(a.max_rsi_arr, i)
       IN  /\ ~(IsNaN(mc1) \/ IsNaN(mc2) \/ IsNaN(rsi1) \/ IsNaN(maxr))
           /\ FGt(mc1, mc2) /\ FLt(rsi1, maxr) /\ FLe(Iloc(df, i).rsi, rsi1)

\* one iteration of the loop of multi_rsi_divergence_bot.py: a bar with
\* undefined RSI leaves the arrays as they were created
LoopBodyMulti(a, df, lookback, i) ==
    LET rsi_val == Iloc(df, i).rsi
        close_val == Iloc(df, i).close
        window_rsi == WindowRsi(df, lookback, i)
        here == [rsi |-> rsi_val, close |-> close_val]
    IN  IF IsNaN(rsi_val) THEN a
        ELSE IF window_rsi = {} THEN SetTracked(a, i, here, here)
        ELSE
          LET hb0 == FEq(rsi_val, SetMax(window_rsi))
              lb0 == FEq(rsi_val, SetMin(window_rsi))
              mx == ClampMax(TrackMaxMulti(a, i, rsi_val, close_val, hb0),
                             rsi_val, close_val)
              mn == ClampMin(TrackMinMulti(a, i, rsi_val, close_val, lb0),
                             rsi_val, close_val)
              b == SetTracked(a, i, mx, mn)
          IN  [b EXCEPT !.divbear[i + 1] = DivBearMulti(b, df, i),
                        !.divbull[i + 1] = DivBullMulti(b, df, i)]

\* one iteration of the loop of nifty50_rsi_divergence_bot.py: the
\* statements of rsi_divergence_bot.py, without the four assignments of NaN
\* on a bar with undefined RSI
LoopBodyNifty(a, df, lookback, i) ==
    IF IsNaN(Iloc(df, i).rsi) THEN a ELSE LoopBody(a, df, lookback, i)

\* TriggerTracker.update of multi_rsi_divergence_bot.py, run to its return
UpdateMulti(self, r) ==
    LET armed == IF r.divbear_close
                 THEN [sigs |-> [NoSignals EXCEPT !.divbear = TRUE],
                       bear_trigger |-> Some(r.low), bull_trigger |-> None]
                 ELSE IF r.divbull_close
                 THEN [sigs |-> [NoSignals EXCEPT !.divbull = TRUE],
                       bull_trigger |-> Some(r.high), bear_trigger |-> None]
                 ELSE [sigs |-> NoSignals, bull_trigger |-> self.bull_trigger,
                       bear_trigger |-> self.bear_trigger]
        broke_bull == armed.bull_trigger # None /\ FGe(r.high, armed.bull_trigger[1])
        broke_bear == armed.bear_trigger # None /\ FLe(r.low, armed.bear_trigger[1])
    IN  [bull_trigger |-> IF broke_bull THEN None ELSE armed.bull_trigger,
         bear_trigger |-> IF broke_bear THEN None ELSE armed.bear_trigger,
         signals |-> [armed.sigs EXCEPT
                        !.buy = broke_bull /\ FGt(r.rsi, RSI_BUY_MIN),
                        !.sell = broke_bear /\ FLt(r.rsi, RSI_SELL_MAX)],
         bull_broke |-> broke_bull, bear_broke |-> broke_bear]

\* TriggerTracker.update of nifty50_rsi_divergence_bot.py: statement for
\* statement the one of rsi_divergence_bot.py
UpdateNifty(self, r) == RunSteps(1, EnterUpdate(self), r)

\* either a frame is given to the three compute_divergences, or rows are
\* given to a tracker
EquivInit ==
    \/ DivInit
    \/ TrackerInit

\* bar d_i in each of the three loops
EquivIterate ==
    /\ d_i < Len(d_df)
    /\ arr' = LoopBody(arr, d_df, d_lookback, d_i)
    /\ arr_multi' = LoopBodyMulti(arr_multi, d_df, d_lookback, d_i)
    /\ arr_nifty' = LoopBodyNifty(arr_nifty, d_df, d_lookback, d_i)
    /\ pre_clamp' = PreClamp(arr, d_df, d_lookback, d_i)
    /\ d_i' = d_i + 1
    /\ UNCHANGED <<d_df, d_lookback, w_latest, trackerVars, ghostVars, mainVars,
                   multiVars, market_open, niftyVars, onceVars>>

\* update(row) of rsi_divergence_bot.py on the tracker, as one step
EquivUpdate ==
    /\ d_df = << >>
    /\ \E r \in TrackerRows :
         /\ row' = r
         /\ SetFrame(Update([bull_trigger |-> bull_trigger,
                             bear_trigger |-> bear_trigger], r))
         /\ bull_seen' = (bull_seen \/ r.divbull_close)
         /\ bear_seen' = (bear_seen \/ r.divbear_close)
    /\ entry_bull' = bull_trigger
    /\ entry_bear' = bear_trigger
    /\ UNCHANGED <<upc, bull_hit, bear_hit, bull_spent, bear_spent, divVars, mainVars,
                   multiVars, market_open, niftyVars, onceVars>>

EquivNext == EquivIterate \/ EquivUpdate

EquivSpec == EquivInit /\ [][EquivNext]_vars

\* C30: for every bar the three loops have passed, divbear_close and
\* divbull_close are the same in the three copies of compute_divergences
\* (closes that are numbers, RSI undefined on a prefix); and for every
\* tracker state and row the update of the multi bot and the one of the
\* Nifty bot return the signals and leave the triggers that the update of
\* rsi_divergence_bot does.
C30_CopiesEquivalent ==
    /\ \A i \in Done :
          /\ Iloc(arr_multi.divbear, i) = Iloc(arr.divbear, i)
          /\ Iloc(arr_multi.divbull, i) = Iloc(arr.divbull, i)
          /\ Iloc(arr_nifty.divbear, i) = Iloc(arr.divbear, i)
          /\ Iloc(arr_nifty.divbull, i) = Iloc(arr.divbull, i)
    /\ row # NoRow =>
          LET self == [bull_trigger |-> entry_bull, bear_trigger |-> entry_bear]
          IN  /\ UpdateMulti(self, row) = Frame
              /\ UpdateNifty(self, row) = Frame

\* a frame whose first bar has no RSI, on which the three copies have set
\* the bullish flag of the same bar and the same four tracked values
C30_Witness ==
    /\ d_i = Len(d_df) /\ d_i > 0 /\ ~Defined(Rsi(0))
    /\ \E i \in Done :
          Iloc(arr.divbull, i) /\ Iloc(arr_multi.divbull, i) /\ Iloc(arr_nifty.divbull, i)
    /\ arr_multi = arr /\ arr_nifty = arr

-----------------------------------------------------------------------------
\* The cycle of main beside its except clause.  The frame of a cycle is
\* seen through its length and its newest row; the newest rows of
\* successive cycles never go back in time.

\* main up to the loop: a new tracker, last_bar_time None
OnceInit == TrackerInit

\* the newest row of this cycle's frame is no older than the last one's
NotOlder(r) == IF df_newest = None THEN TRUE ELSE r.time >= df_newest[1]

OnceRest ==
    UNCHANGED <<market, result_newest, upc, bull_broke, bear_broke, ghostVars,
                divVars, multiVars, market_open, niftyVars>>

\* df.empty or too few rows: log, sleep, continue
OnceShort ==
    /\ \E n \in MultiLens :
         /\ TooShort(n)
         /\ df_len' = n
    /\ outcome' = "short"
    /\ delivery' = << >>
    /\ UNCHANGED <<bull_trigger, bear_trigger, signals, row, last_bar_time, alerts,
                   df_newest, n_updates, fed, onceVars>>
    /\ OnceRest

\* bar_time == last_bar_time: log, sleep, continue
OnceDuplicate ==
    /\ \E r \in MultiRows :
         /\ NotOlder(r)
         /\ IsDuplicate(r.time, last_bar_time)
         /\ df_newest' = Some(r.time)
    /\ outcome' = "duplicate"
    /\ df_len' = MinBars
    /\ delivery' = << >>
    /\ UNCHANGED <<bull_trigger, bear_trigger, signals, row, last_bar_time, alerts,
                   n_updates, fed, onceVars>>
    /\ OnceRest

\* last_bar_time = bar_time, tracker.update(latest), the alert loop
OnceProcess ==
    /\ \E r \in MultiRows :
         LET u == Update([bull_trigger |-> bull_trigger, bear_trigger |-> bear_trigger], r)
             fired == Fired(u.signals, r.time)
         IN  /\ NotOlder(r)
             /\ ~IsDuplicate(r.time, last_bar_time)
             /\ last_bar_time' = Some(r.time)
             /\ df_newest' = Some(r.time)
             /\ row' = r
             /\ fed' = Append(fed, r.time)
             /\ bull_trigger' = u.bull_trigger
             /\ bear_trigger' = u.bear_trigger
             /\ signals' = u.signals
             /\ \E replies \in [1 .. Len(fired) -> TelegramReplies] :
                  LET sends == AlertLoop(fired, replies, 1)
                  IN  /\ delivery' = sends
                      /\ alerts' = alerts \o Sent(sends)
    /\ outcome' = "processed"
    /\ df_len' = MinBars
    /\ n_updates' = n_updates + 1
    /\ UNCHANGED onceVars
    /\ OnceRest

\* the places of the try block where a statement may raise: before the
\* assignment of last_bar_time ("frame"), between it and tracker.update
\* ("stamp"), or in the alert loop at the k-th fired signal, before its
\* send_telegram ("alert", k)
RaisePoints(fired) ==
    {<<"frame", 0>>, <<"stamp", 0>>} \cup {<<"alert", k>> : k \in 1 .. Len(fired)}

\* a statement of the try block raised: the except clause logs, the loop
\* sleeps and goes on
OnceRaise ==
    /\ \E r \in MultiRows :
         LET u == Update([bull_trigger |-> bull_trigger, bear_trigger |-> bear_trigger], r)
             fired == Fired(u.signals, r.time)
         IN  /\ NotOlder(r)
             /\ ~IsDuplicate(r.time, last_bar_time)
             /\ df_newest' = Some(r.time)
             /\ \E at \in RaisePoints(fired) :
                  IF at[1] \in {"frame", "stamp"}
                  THEN /\ last_bar_time' = IF at[1] = "frame" THEN last_bar_time ELSE Some(r.time)
                       /\ skipped' = IF at[1] = "frame" THEN skipped ELSE skipped \cup {r.time}
                       /\ delivery' = << >>
                       /\ UNCHANGED <<bull_trigger, bear_trigger, signals, row, fed,
                                      n_updates, alerts, unsent>>
                  ELSE /\ last_bar_time' = Some(r.time)
                       /\ row' = r
                       /\ fed' = Append(fed, r.time)
                       /\ n_updates' = n_updates + 1
                       /\ bull_trigger' = u.bull_trigger
                       /\ bear_trigger' = u.bear_trigger
                       /\ signals' = u.signals
                       /\ \E replies \in [1 .. at[2] - 1 -> TelegramReplies] :
                            LET sends == AlertLoop(SubSeq(fired, 1, at[2] - 1), replies, 1)
                            IN  /\ delivery' = sends
                                /\ alerts' = alerts \o Sent(sends)
                       /\ unsent' = unsent \cup {fired[j] : j \in at[2] .. Len(fired)}
                       /\ UNCHANGED skipped
    /\ outcome' = "raised"
    /\ df_len' = MinBars
    /\ OnceRest

OnceNext == OnceShort \/ OnceDuplicate \/ OnceProcess \/ OnceRaise

OnceSpec == OnceInit /\ [][OnceNext]_vars

\* the bar times passed to tracker.update so far
FedTimes == {fed[j] : j \in 1 .. Len(fed)}

\* C31: every bar time passed to tracker.update was recorded in
\* last_bar_time first, so with newest bars that never go back in time
\* tracker.update is called at most once per bar time; a bar whose cycle
\* raised after the assignment of last_bar_time is not processed again: one
\* that raised before tracker.update is never passed to it, and the alerts
\* the loop had not reached are never sent.
C31_AtMostOnce ==
    /\ \A i, j \in 1 .. Len(fed) : i < j => fed[i] < fed[j]
    /\ \A j \in 1 .. Len(fed) : \E t \in 1 .. MaxMultiTime : last_bar_time = Some(t) /\ fed[j] <= t
    /\ skipped \cap FedTimes = {}
    /\ \A a \in unsent : \A j \in 1 .. Len(alerts) : alerts[j] # a
    /\ \A j \in 1 .. Len(alerts) : alerts[j].time \in FedTimes

\* the cycle of a bar raised in the alert loop with an alert left, and the
\* next cycle saw the same bar again and skipped it
C31_Witness ==
    /\ outcome = "duplicate"
    /\ unsent # {}
    /\ skipped # {}
    /\ \E a \in unsent : Some(a.time) = last_bar_time /\ df_newest = last_bar_time
    /\ Len(alerts) > 0

-----------------------------------------------------------------------------
\* The frame of a cycle of main behind the minimum-history guard: what
\* fetch_candles and add_rsi make of a response, and the loop of
\* compute_divergences over it with the LOOKBACK of the configuration.

\* the exchange after MaxNewBars more candles have closed
TailMarkets ==
    LET news == UNION {NewBars(MinBars + j) : j \in 1 .. MaxNewBars}
        runs == {f \in [1 .. MaxNewBars -> news] :
                    \A j \in 1 .. MaxNewBars : f[j].time = MinBars + j}
    IN  {History \o f : f \in runs}

\* responses around the guard: a few bars past the RSI warm-up, one bar
\* short of the guard, exactly enough, and everything the exchange holds
TailSizes == {RSI_LENGTH + 3, MinBars, MinBars + 1, MinBars + MaxNewBars}

\* df = fetch_candles(...), then, past the guard, df = add_rsi(df, RSI_LENGTH)
TailFrames ==
    {AddRsi(FetchCandles(Response(m, k), CANDLES_FETCH), RSI_LENGTH) :
        m \in TailMarkets, k \in TailSizes}

TailInit ==
    /\ d_df \in TailFrames
    /\ d_lookback = LOOKBACK
    /\ d_i = 0
    /\ arr = NewArrays(Len(d_df))
    /\ w_latest = NoFlags
    /\ pre_clamp = NoPair
    /\ arr_multi = arr
    /\ arr_nifty = arr
    /\ TrackerIdle
    /\ MainIdle
    /\ OnceIdle
    /\ MultiIdle
    /\ NiftyIdle

\* the guard of main, then one iteration of the loop of
\* compute_divergences(df, LOOKBACK)
TailIterate ==
    /\ ~TooShort(Len(d_df))
    /\ DivIterate

TailSpec == TailInit /\ [][TailIterate]_vars

\* C33: on a frame that passed the minimum-history guard, whose RSI is
\* undefined on its first RSI_LENGTH bars only, the newest bar and its two
\* predecessors have a defined RSI and defined tracked values, the lookback
\* window of the newest bar holds LOOKBACK bars of defined RSI, and the
\* flags of the newest bar, the one fed to tracker.update, are the bare
\* comparisons of the divergence test.
C33_TailIsDefined ==
    (d_i > 0 /\ d_i = Len(d_df)) =>
        /\ \A j \in {Last, Last - 1, Last - 2} :
              /\ Defined(Rsi(j))
              /\ Defined(MaxRsi(j)) /\ Defined(MaxClose(j))
              /\ Defined(MinRsi(j)) /\ Defined(MinClose(j))
        /\ Cardinality({j \in Last - LOOKBACK + 1 .. Last : Defined(Rsi(j))}) = LOOKBACK
        /\ Iloc(arr.divbear, Last) =
              (/\ MaxClose(Last - 1) > MaxClose(Last - 2)
               /\ Rsi(Last - 1) < MaxRsi(Last)
               /\ Rsi(Last) <= Rsi(Last - 1))
        /\ Iloc(arr.divbull, Last) =
              (/\ MinClose(Last - 1) < MinClose(Last - 2)
               /\ Rsi(Last - 1) > MinRsi(Last)
               /\ Rsi(Last) >= Rsi(Last - 1))

\* a frame of exactly RSI_LENGTH + LOOKBACK + 5 bars whose loop has ended
\* with a bearish flag on the newest bar
C33_Witness ==
    /\ d_i = Len(d_df) /\ Len(d_df) = MinBars
    /\ d_lookback = LOOKBACK
    /\ IsNaN(Rsi(RSI_LENGTH - 1)) /\ Defined(Rsi(RSI_LENGTH))
    /\ Iloc(arr.divbear, Last)

-----------------------------------------------------------------------------
\* The alert loop of a processed bar

\* the send_telegram calls of the last cycle for one signal
CallsFor(sig) == {j \in 1 .. Len(delivery) : delivery[j].sig = sig}

Divergences == {"divbear", "divbull"}
Confirmations == {"buy", "sell"}

\* C34: for a processed bar the loop hands send_telegram exactly one alert
\* for each output of update that is true and none for one that is false,
\* every one for that bar, in the order divbear, divbull, buy, sell; so a
\* divergence alert of a bar goes out before the BUY or SELL alert of the
\* same bar.
C34_AlertOrder ==
    outcome = "processed" =>
        /\ \A sig \in Divergences \cup Confirmations :
              Cardinality(CallsFor(sig)) = IF signals[sig] THEN 1 ELSE 0
        /\ \A j \in 1 .. Len(delivery) :
              delivery[j].sig \in Divergences \cup Confirmations /\ delivery[j].time = row.time
        /\ \A i, j \in 1 .. Len(delivery) :
              /\ (delivery[i].sig \in Divergences /\ delivery[j].sig \in Confirmations) => i < j
              /\ (delivery[i].sig = "divbear" /\ delivery[j].sig = "divbull") => i < j
              /\ (delivery[i].sig = "buy" /\ delivery[j].sig = "sell") => i < j

\* a processed bar with a divergence alert followed by a confirmation alert
C34_Witness ==
    /\ outcome = "processed"
    /\ Len(delivery) = 2
    /\ delivery[1].sig \in Divergences /\ delivery[2].sig \in Confirmations
    /\ signals[delivery[1].sig] /\ signals[delivery[2].sig]

====
